---- MODULE Spec2Model ----
(***************************************************************************)
(* Exam score analysis (JehuYu/exam_analyze): the subject registry, the    *)
(* cleaning of an Excel sheet into the working table, the per-subject and  *)
(* total-score statistics and the rule-based analysis built on them.       *)
(*                                                                         *)
(* Strings of the source are written here as sequences of tokens, one per  *)
(* Chinese character in pinyin, so that Python's "a in b" on strings is    *)
(* modelled as a substring test: the subject "shuxue" is <<"shu","xue">>.  *)
(*                                                                         *)
(* Numbers: scores are integers. A value the code computes by dividing     *)
(* (a rate k/n*100, a mean, a cutoff max*percent/100) is kept as the exact *)
(* fraction [num, den]; comparisons cross-multiply. For the sheets and     *)
(* registries enumerated below, IEEE doubles order these values exactly as *)
(* the fractions do (floor(n*0.3) and floor(n*0.8) equal 3n div 10 and     *)
(* 8n div 10, k/n*100 falls on the same side of 5,10,20,30,60,70,75,85).   *)
(***************************************************************************)
EXTENDS Integers, Sequences, FiniteSets, TLC

VARIABLES
    manager_subjects,   \* SubjectManager.subjects: sequence of SubjectConfig
    snapshot,           \* a list get_subjects returned, in the hands of its caller
    last_call,          \* the last call on the registry or on the returned list
    first_pass,         \* what the engine held after its first pass, once a second one starts
    excel_file,         \* the sheet pd.read_excel(self.excel_file) returns
    subjects,           \* GradeAnalysisCore.subjects: names captured in __init__
    df,                 \* GradeAnalysisCore.df: the cleaned working table
    schools,            \* GradeAnalysisCore.schools
    statistics,         \* GradeAnalysisCore.statistics
    analysis,           \* what generate_analysis_report returned
    pc,                 \* how far the pipeline of one engine has run
    run,                \* what a run on the GUI's worker thread has read from the registry
    threads,            \* the GUI's two background workers: where each one is
    widgets             \* the buttons, the progress bar and the status label the workers write

vars == <<manager_subjects, snapshot, last_call, first_pass, excel_file, subjects, df, schools, statistics, analysis, pc, run, threads, widgets>>

\* the GUI as ModernGradeAnalysisGUI.__init__ leaves it: no worker, both
\* buttons enabled, progress 0 (in tenths), status ready (jiu xu)
JiuXu == "jiuxu"
gui_vars == <<run, threads, widgets>>
NoRun == [config_used |-> <<>>, reads |-> <<>>]
NoThreads == [report |-> [at |-> "none", i |-> 0], excel |-> [at |-> "none", i |-> 0]]
InitialWidgets ==
    [export_btn |-> "normal", excel_btn |-> "normal", progress |-> 0, status_label |-> JiuXu]
GuiInit == run = NoRun /\ threads = NoThreads /\ widgets = InitialWidgets

(***************************************************************************)
(* Bounds on the enumerated sheets.                                        *)
(***************************************************************************)
\* rows of a sheet with absent and missing cells, two schools
MaxMixedRows == 2
\* rows of a sheet where everyone sat every exam, three schools
MaxRankRows == 3
\* rows of a one-school, two-subject sheet where everyone sat every exam
MaxLongRows == 7
\* rows of a one-school, one-subject sheet
MaxCohortRows == 25
\* rows of a four-school, one-subject sheet
MaxSchoolsRows == 5
\* rows of a sheet that lacks the column of a configured subject, two schools
MaxMissingRows == 2
MaxNamedTotalRows == 2
MaxDetectPairs == 3
MaxWorkerRows == 1
MaxMarkerRows == 2
\* configurations the registry or a returned list holds at once
MaxRegistry == 2

(***************************************************************************)
(* Names and literals of the source.                                       *)
(***************************************************************************)
KaoHao == <<"kao", "hao">>
XingMing == <<"xing", "ming">>
XueXiaoMingCheng == <<"xue", "xiao", "ming", "cheng">>
BanJiMingCheng == <<"ban", "ji", "ming", "cheng">>
QueKao == <<"que", "kao">>
\* the key of the total statistics (zong fen, "total score")
ZongFen == <<"zong", "fen">>
\* the school name of the district-wide row (quan qu, "whole district")
QuanQu == "QuanQu"
ShuXue == <<"shu", "xue">>
YuWen == <<"yu", "wen">>

\* School names, listed in the order sorted() gives them.
SchoolNames == <<"A", "B", "C", "D">>

\* class SubjectConfig
SubjectConfig(name, max_score, pass_percent, excellence_percent) ==
    [name |-> name, max_score |-> max_score, pass_percent |-> pass_percent,
     excellence_percent |-> excellence_percent]

(***************************************************************************)
(* Exact fractions.                                                        *)
(***************************************************************************)
Frac(n, d) == [num |-> n, den |-> d]
FracLt(a, b) == a.num * b.den < b.num * a.den
FracLe(a, b) == a.num * b.den <= b.num * a.den
FracEq(a, b) == a.num * b.den = b.num * a.den
FracInt(i) == Frac(i, 1)

(***************************************************************************)
(* Cells of a sheet. A score cell holds a number, nothing, or text.        *)
(***************************************************************************)
NumCell(v) == [kind |-> "num", val |-> v]
BlankCell == [kind |-> "blank", val |-> 0]
TextCell == [kind |-> "text", val |-> 0]
NaN == [isna |-> TRUE, val |-> 0]

\* pd.to_numeric(column, errors='coerce'), cell by cell
ToNumeric(c) == IF c.kind = "num" THEN [isna |-> FALSE, val |-> c.val] ELSE NaN

(***************************************************************************)
(* The registries and sheets the engine is run on.                         *)
(***************************************************************************)
RegTwo == <<SubjectConfig(ShuXue, 2, 50, 100), SubjectConfig(YuWen, 1, 60, 80)>>
RegOne == <<SubjectConfig(ShuXue, 2, 50, 100)>>
RegYuWen == <<SubjectConfig(YuWen, 1, 60, 80)>>
\* a registry whose second subject carries the name of the total column
RegNamedTotal == <<SubjectConfig(ShuXue, 2, 50, 100), SubjectConfig(ZongFen, 1, 50, 100)>>

\* The header of a sheet laid out as auto_detect_from_excel expects: four
\* identity columns, then per subject an absence column and a score column.
\* pandas renames a repeated header "x" to "x.1", "x.2", ...
AbsentColName(k) == IF k = 1 THEN QueKao ELSE QueKao \o <<IF k = 2 THEN ".1" ELSE ".2">>

RECURSIVE SubjectCols(_, _)
SubjectCols(reg, k) ==
    IF k > Len(reg) THEN <<>>
    ELSE <<AbsentColName(k), reg[k].name>> \o SubjectCols(reg, k + 1)

StandardCols(reg) ==
    <<KaoHao, XingMing, XueXiaoMingCheng, BanJiMingCheng>> \o SubjectCols(reg, 1)

\* What one student's two cells for a subject may hold.
PresentOpts(cfg) ==
    [v \in 1..(cfg.max_score + 1) |-> <<"N", NumCell(v - 1)>>]
MixedOpts(cfg, k) ==
    PresentOpts(cfg) \o << <<"Y", NumCell(1)>>,
                           <<"N", IF k % 2 = 1 THEN BlankCell ELSE TextCell>> >>

\* The sequences a \o b, a from A and b from B, listed in lexicographic order.
ListProduct(A, B) ==
    [i \in 1..(Len(A) * Len(B)) |->
        A[((i - 1) \div Len(B)) + 1] \o B[((i - 1) % Len(B)) + 1]]

RECURSIVE BodyList(_, _, _)
BodyList(reg, k, mixed) ==
    IF k > Len(reg) THEN << <<>> >>
    ELSE ListProduct(IF mixed THEN MixedOpts(reg[k], k) ELSE PresentOpts(reg[k]),
                     BodyList(reg, k + 1, mixed))

\* Every kind of student row: <<school, absent_1, score_1, absent_2, ...>>.
RowTypes(reg, nSchools, mixed) ==
    ListProduct([i \in 1..nSchools |-> <<SchoolNames[i]>>], BodyList(reg, 1, mixed))

RECURSIVE NonDecreasing(_, _, _)
NonDecreasing(n, lo, hi) ==
    IF n = 0 THEN {<<>>}
    ELSE UNION {{<<i>> \o s : s \in NonDecreasing(n - 1, i, hi)} : i \in lo..hi}

\* A family of sheets: the registry they are analysed under, the registry
\* their columns are laid out for, the kinds of row they hold and the most
\* rows one holds.
MixedFamily == [reg |-> RegTwo, layout |-> RegTwo, types |-> RowTypes(RegTwo, 2, TRUE), maxRows |-> MaxMixedRows]
RankFamily == [reg |-> RegTwo, layout |-> RegTwo, types |-> RowTypes(RegTwo, 3, FALSE), maxRows |-> MaxRankRows]
LongFamily == [reg |-> RegTwo, layout |-> RegTwo, types |-> RowTypes(RegTwo, 1, FALSE), maxRows |-> MaxLongRows]
CohortFamily == [reg |-> RegOne, layout |-> RegOne, types |-> RowTypes(RegOne, 1, FALSE), maxRows |-> MaxCohortRows]
SchoolsFamily == [reg |-> RegYuWen, layout |-> RegYuWen, types |-> RowTypes(RegYuWen, 4, FALSE), maxRows |-> MaxSchoolsRows]
\* sheets laid out for one subject, analysed under a registry of two: the
\* second subject has no column
MissingFamily == [reg |-> RegTwo, layout |-> RegOne, types |-> RowTypes(RegOne, 2, TRUE), maxRows |-> MaxMissingRows]
\* sheets whose second score column is headed like the total column
NamedTotalFamily == [reg |-> RegNamedTotal, layout |-> RegNamedTotal, types |-> RowTypes(RegNamedTotal, 1, TRUE), maxRows |-> MaxNamedTotalRows]
Families == {MixedFamily, RankFamily, LongFamily, CohortFamily, SchoolsFamily, MissingFamily}

\* The sheet whose i-th row is of kind idx[i]. The engine filters, counts, sums
\* and sorts rows by value, so one order of each multiset of rows is enumerated
\* (idx is non-decreasing).
Sheet(fam, idx) ==
    [cols |-> StandardCols(fam.layout),
     rows |-> [i \in 1..Len(idx) |->
                <<i, "stu", fam.types[idx[i]][1], "c1">> \o Tail(fam.types[idx[i]])]]

(***************************************************************************)
(* SubjectManager                                                          *)
(***************************************************************************)
\* SubjectManager.get_subject: the first configuration named name, or None
None == [none |-> TRUE]
get_subject(registry, name) ==
    IF \E i \in 1..Len(registry) : registry[i].name = name
    THEN registry[CHOOSE i \in 1..Len(registry) :
                    /\ registry[i].name = name
                    /\ \A j \in 1..(i - 1) : registry[j].name # name]
    ELSE None

\* SubjectManager.get_subjects: a copy of the list
get_subjects(registry) == registry

\* A list in a caller's hands: its items, and whether it is the very list
\* object the registry holds (alias), so that a change made in place to one
\* shows in the other.

\* A slip: return self.subjects, the registry's own list
ListSame(items) == [alias |-> TRUE, items |-> items]

\* list.copy(): a new list object with the same items
ListCopy(items) == [alias |-> FALSE, items |-> items]

\* A call on the registry or on a returned list, with the value it returned
Call(op, args, result) == [op |-> op, args |-> args, result |-> result]

(***************************************************************************)
(* GradeAnalysisCore.__init__ and load_data / _clean_data                  *)
(***************************************************************************)
\* Python's "sub in col" on strings
Contains(sub, col) ==
    \E i \in 1..(Len(col) - Len(sub) + 1) : SubSeq(col, i, i + Len(sub) - 1) = sub

\* df[name]: the position of the column with that header
ColIndex(cols, name) == CHOOSE i \in 1..Len(cols) : cols[i] = name

\* The loop of _clean_data for one subject: the first header after the fifth
\* that contains the subject's name is its score column, the one before it its
\* absence column; 0 when there is none.
ScoreColumn(cols, subject) ==
    LET hits == {i \in 6..Len(cols) : Contains(subject, cols[i])}
    IN  IF hits = {} THEN 0 ELSE CHOOSE i \in hits : \A j \in hits : i <= j

CleanMarks(sheet, row, subject) ==
    LET i == ScoreColumn(sheet.cols, subject)
    IN  IF i = 0
        THEN [absent |-> "N", score |-> [isna |-> FALSE, val |-> 0]]
        ELSE [absent |-> row[ColIndex(sheet.cols, sheet.cols[i - 1])],
              score |-> ToNumeric(row[ColIndex(sheet.cols, sheet.cols[i])])]

SubjectSet(names) == {names[k] : k \in 1..Len(names)}

_clean_data(sheet, names) ==
    [r \in 1..Len(sheet.rows) |->
        [kaohao |-> sheet.rows[r][ColIndex(sheet.cols, KaoHao)],
         xingming |-> sheet.rows[r][ColIndex(sheet.cols, XingMing)],
         school |-> sheet.rows[r][ColIndex(sheet.cols, XueXiaoMingCheng)],
         banji |-> sheet.rows[r][ColIndex(sheet.cols, BanJiMingCheng)],
         marks |-> [s \in SubjectSet(names) |-> CleanMarks(sheet, sheet.rows[r], s)]]]

\* sorted(self.df[school].unique().tolist())
SortedSchools(table) ==
    SelectSeq(SchoolNames, LAMBDA n : \E r \in 1..Len(table) : table[r].school = n)

(***************************************************************************)
(* Series helpers (pandas): sum, sort_values, max, min, counting a mask.   *)
(***************************************************************************)
RECURSIVE SeqSum(_)
SeqSum(s) == IF s = <<>> THEN 0 ELSE Head(s) + SeqSum(Tail(s))

\* x put into the descending sequence s
InsertDesc(x, s) ==
    LET k == Cardinality({i \in 1..Len(s) : s[i] >= x})
    IN  SubSeq(s, 1, k) \o <<x>> \o SubSeq(s, k + 1, Len(s))

\* sort_values(ascending=False).reset_index(drop=True)
RECURSIVE SortDescending(_)
SortDescending(s) == IF s = <<>> THEN <<>> ELSE InsertDesc(Head(s), SortDescending(Tail(s)))

SeqMax(s) == CHOOSE x \in {s[i] : i \in 1..Len(s)} : \A i \in 1..Len(s) : s[i] <= x
SeqMin(s) == CHOOSE x \in {s[i] : i \in 1..Len(s)} : \A i \in 1..Len(s) : s[i] >= x

\* (scores >= line).sum() and (scores <= line).sum(), line a fraction
CountGe(scores, line) == Cardinality({i \in 1..Len(scores) : FracLe(line, FracInt(scores[i]))})
CountLe(scores, line) == Cardinality({i \in 1..Len(scores) : FracLe(FracInt(scores[i]), line)})

\* k / count * 100
Rate(k, count) == Frac(k * 100, count)

(***************************************************************************)
(* The percentile cutoffs, from the scores sorted descending.              *)
(***************************************************************************)
\* math.floor(total_count * 0.3) and math.floor(total_count * 0.8)
Floor30(total_count) == (total_count * 3) \div 10
Floor80(total_count) == (total_count * 8) \div 10

\* A slip: iloc[top30_count] for iloc[top30_count - 1]
SubjectTop30LineOffByOne(sorted_scores) ==
    LET total_count == Len(sorted_scores)
        top30_count == Floor30(total_count)
    IN  IF top30_count > 0 /\ top30_count <= total_count
        THEN sorted_scores[top30_count + 1]
        ELSE SeqMax(sorted_scores)

\* _calculate_subject_stats: top30_line (iloc is 0-based, sequences 1-based)
SubjectTop30Line(sorted_scores) ==
    LET total_count == Len(sorted_scores)
        top30_count == Floor30(total_count)
    IN  IF top30_count > 0 /\ top30_count <= total_count
        THEN sorted_scores[(top30_count - 1) + 1]
        ELSE SeqMax(sorted_scores)

\* _calculate_total_stats: top30_line
TotalTop30Line(sorted_scores) ==
    LET total_count == Len(sorted_scores)
        top30_count == Floor30(total_count)
    IN  IF top30_count > 0
        THEN sorted_scores[(top30_count - 1) + 1]
        ELSE SeqMax(sorted_scores)

\* A slip: math.ceil for math.floor
Bottom20LineCeil(sorted_scores) ==
    LET total_count == Len(sorted_scores)
        top80_count == (total_count * 8 + 9) \div 10
    IN  IF top80_count < total_count
        THEN sorted_scores[top80_count + 1]
        ELSE SeqMin(sorted_scores)

\* bottom20_line, the same text in both calculators
Bottom20Line(sorted_scores) ==
    LET total_count == Len(sorted_scores)
        top80_count == Floor80(total_count)
    IN  IF top80_count < total_count
        THEN sorted_scores[top80_count + 1]
        ELSE SeqMin(sorted_scores)

(***************************************************************************)
(* The aggregate list: one row per school, ranks, the district-wide row.   *)
(* The two calculators build it with the same text.                        *)
(***************************************************************************)
\* A slip: > for >= in pass_count
AggregateRowStrictPass(school, scores, pass_line, excellence_line, bottom20_line, top30_line) ==
    LET count == Len(scores)
    IN  [school |-> school,
         count |-> count,
         pass_rate |-> Rate(Cardinality({i \in 1..Len(scores) :
                                FracLt(pass_line, FracInt(scores[i]))}), count),
         excellence_rate |-> Rate(CountGe(scores, excellence_line), count),
         avg_score |-> Frac(SeqSum(scores), count),
         bottom20_rate |-> Rate(CountLe(scores, FracInt(bottom20_line)), count),
         top30_rate |-> Rate(CountGe(scores, FracInt(top30_line)), count)]

\* A slip: the two lines taken one for the other
AggregateRowLinesSwapped(school, scores, pass_line, excellence_line, bottom20_line, top30_line) ==
    LET count == Len(scores)
    IN  [school |-> school,
         count |-> count,
         pass_rate |-> Rate(CountGe(scores, excellence_line), count),
         excellence_rate |-> Rate(CountGe(scores, pass_line), count),
         avg_score |-> Frac(SeqSum(scores), count),
         bottom20_rate |-> Rate(CountLe(scores, FracInt(bottom20_line)), count),
         top30_rate |-> Rate(CountGe(scores, FracInt(top30_line)), count)]

\* the dict appended to school_stats, or the district-wide row before ranks
AggregateRow(school, scores, pass_line, excellence_line, bottom20_line, top30_line) ==
    LET count == Len(scores)
    IN  [school |-> school,
         count |-> count,
         pass_rate |-> Rate(CountGe(scores, pass_line), count),
         excellence_rate |-> Rate(CountGe(scores, excellence_line), count),
         avg_score |-> Frac(SeqSum(scores), count),
         bottom20_rate |-> Rate(CountLe(scores, FracInt(bottom20_line)), count),
         top30_rate |-> Rate(CountGe(scores, FracInt(top30_line)), count)]

\* A slip: method='dense', one more than the number of distinct values that
\* come strictly before row i's
RankDense(rows, field, i, ascending) ==
    1 + Cardinality({j \in 1..Len(rows) :
            /\ IF ascending THEN FracLt(rows[j][field], rows[i][field])
               ELSE FracLt(rows[i][field], rows[j][field])
            /\ \A k \in 1..(j - 1) : ~FracEq(rows[k][field], rows[j][field])})

\* Series.rank(method='min').astype(int): one more than the number of rows
\* that come strictly before row i in the sort order
RankMin(rows, field, i, ascending) ==
    1 + Cardinality({j \in 1..Len(rows) :
            IF ascending THEN FracLt(rows[j][field], rows[i][field])
            ELSE FracLt(rows[i][field], rows[j][field])})

WithRanks(rows) ==
    [i \in 1..Len(rows) |->
        [school |-> rows[i].school,
         count |-> rows[i].count,
         pass_rate |-> rows[i].pass_rate,
         excellence_rate |-> rows[i].excellence_rate,
         avg_score |-> rows[i].avg_score,
         bottom20_rate |-> rows[i].bottom20_rate,
         top30_rate |-> rows[i].top30_rate,
         pass_rank |-> RankMin(rows, "pass_rate", i, FALSE),
         excellence_rank |-> RankMin(rows, "excellence_rate", i, FALSE),
         avg_rank |-> RankMin(rows, "avg_score", i, FALSE),
         bottom20_rank |-> RankMin(rows, "bottom20_rate", i, TRUE),
         top30_rank |-> RankMin(rows, "top30_rate", i, FALSE)]]

\* all_row: the district-wide row, its ranks blank
DistrictRow(all_scores, pass_line, excellence_line, bottom20_line, top30_line) ==
    LET r == AggregateRow(QuanQu, all_scores, pass_line, excellence_line,
                          bottom20_line, top30_line)
    IN  [school |-> r.school,
         count |-> r.count,
         pass_rate |-> r.pass_rate,
         excellence_rate |-> r.excellence_rate,
         avg_score |-> r.avg_score,
         bottom20_rate |-> r.bottom20_rate,
         top30_rate |-> r.top30_rate,
         pass_rank |-> "",
         excellence_rank |-> "",
         avg_rank |-> "",
         bottom20_rank |-> "",
         top30_rank |-> ""]

\* The loop over self.schools: scores_by[school] are the school's scores; a
\* school with none gets no row.
SchoolStats(school_list, scores_by, pass_line, excellence_line, bottom20_line, top30_line) ==
    LET with_scores == SelectSeq(school_list, LAMBDA school : Len(scores_by[school]) # 0)
    IN  [k \in 1..Len(with_scores) |->
            AggregateRow(with_scores[k], scores_by[with_scores[k]], pass_line,
                         excellence_line, bottom20_line, top30_line)]

\* A slip: percentile lines of 0 put in the return value when nobody is eligible
EmptyStatsWithLines(pass_line, excellence_line) ==
    [data |-> <<>>, pass_line |-> pass_line, excellence_line |-> excellence_line,
     top30_line |-> 0, bottom20_line |-> 0]

\* The return value when nobody is eligible
EmptyStats(pass_line, excellence_line) ==
    [data |-> <<>>, pass_line |-> pass_line, excellence_line |-> excellence_line]

(***************************************************************************)
(* _calculate_subject_stats                                                *)
(***************************************************************************)
\* all_students and all_scores: the rows marked 'N', of them those with a score
Eligible(table, subject) ==
    SelectSeq(SelectSeq(table, LAMBDA r : r.marks[subject].absent = "N"),
              LAMBDA r : ~r.marks[subject].score.isna)

ScoreVals(rows, subject) == [i \in 1..Len(rows) |-> rows[i].marks[subject].score.val]

OfSchool(rows, school) == SelectSeq(rows, LAMBDA r : r.school = school)

\* A slip: the school's scores taken without dropna()
SubjectSchoolScoresNoDropna(table, subject, school) ==
    ScoreVals(SelectSeq(OfSchool(table, school), LAMBDA r : r.marks[subject].absent = "N"),
              subject)

\* school_scores in the loop over self.schools: the school's rows of self.df,
\* of them those marked 'N', of them those with a score
SubjectSchoolScores(table, subject, school) ==
    ScoreVals(SelectSeq(SelectSeq(OfSchool(table, school),
                                  LAMBDA r : r.marks[subject].absent = "N"),
                        LAMBDA r : ~r.marks[subject].score.isna),
              subject)

_calculate_subject_stats(registry, table, school_list, subject) ==
    LET config == get_subject(registry, subject)
        max_score == config.max_score
        pass_line == Frac(max_score * config.pass_percent, 100)
        excellence_line == Frac(max_score * config.excellence_percent, 100)
        all_students == Eligible(table, subject)
        all_scores == ScoreVals(all_students, subject)
        total_count == Len(all_scores)
        sorted_scores == SortDescending(all_scores)
        top30_line == SubjectTop30Line(sorted_scores)
        bottom20_line == Bottom20Line(sorted_scores)
        school_scores == [school \in {school_list[k] : k \in 1..Len(school_list)} |->
                            SubjectSchoolScores(table, subject, school)]
        school_stats == SchoolStats(school_list, school_scores, pass_line,
                                    excellence_line, bottom20_line, top30_line)
    IN  IF total_count = 0
        THEN EmptyStats(pass_line, excellence_line)
        ELSE [data |-> WithRanks(school_stats)
                       \o <<DistrictRow(all_scores, pass_line, excellence_line,
                                        bottom20_line, top30_line)>>,
              pass_line |-> pass_line,
              excellence_line |-> excellence_line,
              top30_line |-> top30_line,
              bottom20_line |-> bottom20_line,
              max_score |-> max_score]

(***************************************************************************)
(* _calculate_total_stats                                                  *)
(***************************************************************************)
\* A slip: the absence mark is not looked at
RowValidIgnoringAbsent(row, names) ==
    \A k \in 1..Len(names) : ~row.marks[names[k]].score.isna

\* A slip: a missing score is not looked at
RowValidIgnoringMissing(row, names) ==
    \A k \in 1..Len(names) : ~(row.marks[names[k]].absent = "Y")

\* The loop over self.subjects for one row: it stops at the first subject
\* marked 'Y' or without a score.
RowValid(row, names) ==
    \A k \in 1..Len(names) :
        ~(row.marks[names[k]].absent = "Y" \/ row.marks[names[k]].score.isna)

RowTotal(row, names) ==
    IF RowValid(row, names)
    THEN SeqSum([k \in 1..Len(names) |-> row.marks[names[k]].score.val])
    ELSE 0

\* A slip: the total column is added to, not set to 0 first
WithTotalsAccumulating(table, names) ==
    [r \in 1..Len(table) |->
        [zongfen |-> (IF "zongfen" \in DOMAIN table[r] THEN table[r].zongfen ELSE 0)
                     + RowTotal(table[r], names),
         youxiao |-> RowValid(table[r], names)] @@ table[r]]

\* self.df[zongfen] = v for one row: the column is the score column of a
\* subject of that name when cleaning made one
WriteTotal(row, v) ==
    IF ZongFen \in DOMAIN row.marks
    THEN [row EXCEPT !.marks[ZongFen].score = [isna |-> FALSE, val |-> v]]
    ELSE row

\* self.df with the two columns the total calculator writes into it: the total
\* column is set to 0, the rows are read, then each row's total is written
WithTotals(table, names) ==
    [r \in 1..Len(table) |->
        [zongfen |-> RowTotal(WriteTotal(table[r], 0), names),
         youxiao |-> RowValid(WriteTotal(table[r], 0), names)]
            @@ WriteTotal(table[r], RowTotal(WriteTotal(table[r], 0), names))]

TotalMaxScore(registry) ==
    SeqSum([k \in 1..Len(get_subjects(registry)) |-> get_subjects(registry)[k].max_score])

\* A slip: the subjects' own pass lines added up
TotalPassLineSumOfLines(registry) ==
    Frac(SeqSum([k \in 1..Len(get_subjects(registry)) |->
                    get_subjects(registry)[k].max_score
                        * get_subjects(registry)[k].pass_percent]),
         100)

\* total_max_score * (sum of pass_percent / len) / 100
TotalPassLine(registry) ==
    Frac(TotalMaxScore(registry)
            * SeqSum([k \in 1..Len(get_subjects(registry)) |->
                        get_subjects(registry)[k].pass_percent]),
         Len(get_subjects(registry)) * 100)

TotalExcellenceLine(registry) ==
    Frac(TotalMaxScore(registry)
            * SeqSum([k \in 1..Len(get_subjects(registry)) |->
                        get_subjects(registry)[k].excellence_percent]),
         Len(get_subjects(registry)) * 100)

\* school_scores in the loop over self.schools: the valid students of the school
TotalSchoolScores(valid_students, school) ==
    LET school_data == OfSchool(valid_students, school)
    IN  [i \in 1..Len(school_data) |-> school_data[i].zongfen]

\* table is self.df after the loop that fills the two columns
\* and the thresholds are those computed from the registry before the loop
TotalStatsFrom(total_max_score, pass_line, excellence_line, table, school_list) ==
    LET valid_students == SelectSeq(table, LAMBDA r : r.youxiao = TRUE)
        all_scores == [i \in 1..Len(valid_students) |-> valid_students[i].zongfen]
        total_count == Len(all_scores)
        sorted_scores == SortDescending(all_scores)
        top30_line == TotalTop30Line(sorted_scores)
        bottom20_line == Bottom20Line(sorted_scores)
        school_scores == [school \in {school_list[k] : k \in 1..Len(school_list)} |->
                            TotalSchoolScores(valid_students, school)]
        school_stats == SchoolStats(school_list, school_scores, pass_line,
                                    excellence_line, bottom20_line, top30_line)
    IN  IF total_count = 0
        THEN EmptyStats(pass_line, excellence_line)
        ELSE [data |-> WithRanks(school_stats)
                       \o <<DistrictRow(all_scores, pass_line, excellence_line,
                                        bottom20_line, top30_line)>>,
              pass_line |-> pass_line,
              excellence_line |-> excellence_line,
              top30_line |-> top30_line,
              bottom20_line |-> bottom20_line,
              max_score |-> total_max_score]

_calculate_total_stats(registry, table, school_list) ==
    TotalStatsFrom(TotalMaxScore(registry), TotalPassLine(registry),
                   TotalExcellenceLine(registry), table, school_list)

(***************************************************************************)
(* generate_analysis_report. The texts it formats ('summary', 'content')   *)
(* are left out; a recommendation's content is the template it fills and   *)
(* the subject or school it names.                                         *)
(***************************************************************************)
\* the four levels: excellent, good, moderate, needs improvement
YouXiu == "youxiu"
LiangHao == "lianghao"
ZhongDeng == "zhongdeng"
XuYaoGaiJin == "xuyaogaijin"

\* A slip: the moderate rule tried before the good rule
PerformanceLevelModerateFirst(pass_rate, excellence_rate) ==
    IF FracLe(FracInt(85), pass_rate) /\ FracLe(FracInt(20), excellence_rate) THEN YouXiu
    ELSE IF FracLe(FracInt(60), pass_rate) /\ FracLe(FracInt(5), excellence_rate) THEN ZhongDeng
    ELSE IF FracLe(FracInt(75), pass_rate) /\ FracLe(FracInt(10), excellence_rate) THEN LiangHao
    ELSE XuYaoGaiJin

_get_performance_level(pass_rate, excellence_rate) ==
    IF FracLe(FracInt(85), pass_rate) /\ FracLe(FracInt(20), excellence_rate) THEN YouXiu
    ELSE IF FracLe(FracInt(75), pass_rate) /\ FracLe(FracInt(10), excellence_rate) THEN LiangHao
    ELSE IF FracLe(FracInt(60), pass_rate) /\ FracLe(FracInt(5), excellence_rate) THEN ZhongDeng
    ELSE XuYaoGaiJin

\* stats[stats[school] == district]: raises KeyError on the empty DataFrame,
\* which has no such column
HasDistrictRow(data) == \E i \in 1..Len(data) : data[i].school = QuanQu
DistrictOf(data) == SelectSeq(data, LAMBDA r : r.school = QuanQu)[1]
SchoolRowsOf(data) == SelectSeq(data, LAMBDA r : r.school # QuanQu)

_analyze_overall(stats) ==
    LET all_data == DistrictOf(stats[ZongFen].data)
    IN  [level |-> _get_performance_level(all_data.pass_rate, all_data.excellence_rate),
         pass_rate |-> all_data.pass_rate,
         excellence_rate |-> all_data.excellence_rate,
         avg_score |-> all_data.avg_score]

\* nlargest(1, avg) and nsmallest(1, avg): of equal rows the first is kept
\* A slip: of equal rows the last is kept
LastLargest(rows, field) ==
    rows[CHOOSE i \in 1..Len(rows) :
            /\ \A j \in 1..Len(rows) : FracLe(rows[j][field], rows[i][field])
            /\ \A j \in (i + 1)..Len(rows) : FracLt(rows[j][field], rows[i][field])]
FirstLargest(rows, field) ==
    rows[CHOOSE i \in 1..Len(rows) :
            /\ \A j \in 1..Len(rows) : FracLe(rows[j][field], rows[i][field])
            /\ \A j \in 1..(i - 1) : FracLt(rows[j][field], rows[i][field])]
FirstSmallest(rows, field) ==
    rows[CHOOSE i \in 1..Len(rows) :
            /\ \A j \in 1..Len(rows) : FracLe(rows[i][field], rows[j][field])
            /\ \A j \in 1..(i - 1) : FracLt(rows[i][field], rows[j][field])]

FracSub(a, b) == Frac(a.num * b.den - b.num * a.den, a.den * b.den)

_analyze_subjects(stats, names) ==
    [k \in 1..Len(names) |->
        LET data == stats[names[k]].data
            all_data == DistrictOf(data)
            school_stats == SchoolRowsOf(data)
            best_school == FirstLargest(school_stats, "avg_score")
            worst_school == FirstSmallest(school_stats, "avg_score")
        IN  [subject |-> names[k],
             avg_score |-> all_data.avg_score,
             pass_rate |-> all_data.pass_rate,
             excellence_rate |-> all_data.excellence_rate,
             best_school |-> best_school.school,
             best_avg |-> best_school.avg_score,
             worst_school |-> worst_school.school,
             worst_avg |-> worst_school.avg_score,
             gap |-> FracSub(best_school.avg_score, worst_school.avg_score)]]

\* A slip: an unstable sort that puts the later of equal ranks first
RECURSIVE SortByRankLaterFirst(_)
SortByRankLaterFirst(s) ==
    IF s = <<>> THEN <<>>
    ELSE LET front == SortByRankLaterFirst(SubSeq(s, 1, Len(s) - 1))
             x == s[Len(s)]
             k == Cardinality({i \in 1..Len(front) : front[i].rank < x.rank})
         IN  SubSeq(front, 1, k) \o <<x>> \o SubSeq(front, k + 1, Len(front))

\* A slip: sorted with reverse=True
RECURSIVE SortByRankDescending(_)
SortByRankDescending(s) ==
    IF s = <<>> THEN <<>>
    ELSE LET front == SortByRankDescending(SubSeq(s, 1, Len(s) - 1))
             x == s[Len(s)]
             k == Cardinality({i \in 1..Len(front) : front[i].rank >= x.rank})
         IN  SubSeq(front, 1, k) \o <<x>> \o SubSeq(front, k + 1, Len(front))

\* list.sort(key=rank): stable, ascending
RECURSIVE SortByRank(_)
SortByRank(s) ==
    IF s = <<>> THEN <<>>
    ELSE LET front == SortByRank(SubSeq(s, 1, Len(s) - 1))
             x == s[Len(s)]
             k == Cardinality({i \in 1..Len(front) : front[i].rank <= x.rank})
         IN  SubSeq(front, 1, k) \o <<x>> \o SubSeq(front, k + 1, Len(front))

\* the subjects in which the school has a row, with its average and rank there
SubjectAvgs(stats, names, school) ==
    LET with_row == SelectSeq(names, LAMBDA n :
                        \E i \in 1..Len(stats[n].data) : stats[n].data[i].school = school)
        RowIn(n) == SelectSeq(stats[n].data, LAMBDA r : r.school = school)[1]
    IN  [k \in 1..Len(with_row) |->
            [subject |-> with_row[k],
             avg |-> RowIn(with_row[k]).avg_score,
             rank |-> RowIn(with_row[k]).avg_rank]]

_analyze_schools(stats, names) ==
    LET school_stats == SchoolRowsOf(stats[ZongFen].data)
    IN  [k \in 1..Len(school_stats) |->
            LET row == school_stats[k]
                unsorted == SubjectAvgs(stats, names, row.school)
                subject_ranks == [i \in 1..Len(unsorted) |-> unsorted[i].rank]
                subject_avgs == SortByRank(unsorted)
            IN  [school |-> row.school,
                 total_avg |-> row.avg_score,
                 total_rank |-> row.avg_rank,
                 pass_rate |-> row.pass_rate,
                 excellence_rate |-> row.excellence_rate,
                 top30_rate |-> row.top30_rate,
                 bottom20_rate |-> row.bottom20_rate,
                 avg_rank |-> IF subject_ranks # <<>>
                              THEN Frac(SeqSum(subject_ranks), Len(subject_ranks))
                              ELSE FracInt(0),
                 strength_subject |-> IF subject_avgs # <<>> THEN subject_avgs[1].subject
                                      ELSE None,
                 strength_avg |-> IF subject_avgs # <<>> THEN subject_avgs[1].avg ELSE None,
                 weakness_subject |-> IF subject_avgs # <<>>
                                      THEN subject_avgs[Len(subject_avgs)].subject ELSE None,
                 weakness_avg |-> IF subject_avgs # <<>>
                                  THEN subject_avgs[Len(subject_avgs)].avg ELSE None]]

\* recommendation types and levels: overall / subject / school advice;
\* important / urgent / watch
ZhengTiJianYi == "zhengtijianyi"
KeMuJianYi == "kemujianyi"
XueXiaoJianYi == "xuexiaojianyi"
ZhongYao == "zhongyao"
JinJi == "jinji"
GuanZhu == "guanzhu"

Recommendation(type, level, content) == [type |-> type, level |-> level, content |-> content]

\* nsmallest(n, field): ascending, of equal rows the earlier first
RECURSIVE SortRowsAscending(_, _)
SortRowsAscending(rows, field) ==
    IF rows = <<>> THEN <<>>
    ELSE LET front == SortRowsAscending(SubSeq(rows, 1, Len(rows) - 1), field)
             x == rows[Len(rows)]
             k == Cardinality({i \in 1..Len(front) : FracLe(front[i][field], x[field])})
         IN  SubSeq(front, 1, k) \o <<x>> \o SubSeq(front, k + 1, Len(front))

\* A slip: the first n rows as they stand, not the n smallest
FirstRows(n, rows, field) ==
    SubSeq(rows, 1, IF Len(rows) < n THEN Len(rows) ELSE n)

NSmallest(n, rows, field) ==
    LET sorted == SortRowsAscending(rows, field)
    IN  SubSeq(sorted, 1, IF Len(sorted) < n THEN Len(sorted) ELSE n)

\* A slip: <= for < in the overall pass-rate rule
OverallPassRuleAtMost(all_data) ==
    IF FracLe(all_data.pass_rate, FracInt(70))
    THEN <<Recommendation(ZhengTiJianYi, ZhongYao, <<"hegelv">>)>> ELSE <<>>

OverallPassRule(all_data) ==
    IF FracLt(all_data.pass_rate, FracInt(70))
    THEN <<Recommendation(ZhengTiJianYi, ZhongYao, <<"hegelv">>)>> ELSE <<>>

OverallExcellenceRule(all_data) ==
    IF FracLt(all_data.excellence_rate, FracInt(10))
    THEN <<Recommendation(ZhengTiJianYi, ZhongYao, <<"youxiulv">>)>> ELSE <<>>

RECURSIVE SubjectRules(_, _, _)
SubjectRules(stats, names, k) ==
    IF k > Len(names) THEN <<>>
    ELSE (IF FracLt(DistrictOf(stats[names[k]].data).pass_rate, FracInt(60))
          THEN <<Recommendation(KeMuJianYi, JinJi, <<"hegelv", names[k]>>)>> ELSE <<>>)
         \o SubjectRules(stats, names, k + 1)

RECURSIVE SchoolRules(_, _)
SchoolRules(bottom_schools, k) ==
    IF k > Len(bottom_schools) THEN <<>>
    ELSE (IF FracLt(FracInt(30), bottom_schools[k].bottom20_rate)
          THEN <<Recommendation(XueXiaoJianYi, GuanZhu, <<"hou20", bottom_schools[k].school>>)>>
          ELSE <<>>)
         \o SchoolRules(bottom_schools, k + 1)

\* A slip: the per-school rules run before the per-subject rules
RecommendationsSchoolsFirst(stats, names) ==
    LET total_stats == stats[ZongFen].data
        all_data == DistrictOf(total_stats)
        school_stats == SchoolRowsOf(total_stats)
        bottom_schools == NSmallest(3, school_stats, "avg_score")
    IN  OverallPassRule(all_data) \o OverallExcellenceRule(all_data)
        \o SchoolRules(bottom_schools, 1) \o SubjectRules(stats, names, 1)

_generate_recommendations(stats, names) ==
    LET total_stats == stats[ZongFen].data
        all_data == DistrictOf(total_stats)
        school_stats == SchoolRowsOf(total_stats)
        bottom_schools == NSmallest(3, school_stats, "avg_score")
    IN  OverallPassRule(all_data) \o OverallExcellenceRule(all_data)
        \o SubjectRules(stats, names, 1) \o SchoolRules(bottom_schools, 1)

\* Whether generate_analysis_report raises: the district-wide row is looked up
\* in the total's data and in every subject's.
AnalysisRaises(stats, names) ==
    \/ ~HasDistrictRow(stats[ZongFen].data)
    \/ \E k \in 1..Len(names) : ~HasDistrictRow(stats[names[k]].data)

\* An engine constructed over the registry and a sheet of one family.
Constructed(fam) ==
    \E n \in 0..fam.maxRows :
      \E idx \in NonDecreasing(n, 1, Len(fam.types)) :
        /\ manager_subjects = fam.reg
        /\ snapshot = [alias |-> FALSE, items |-> <<>>]
        /\ last_call = Call("__init__", <<>>, None)
        /\ first_pass = None
        /\ excel_file = Sheet(fam, idx)
        /\ subjects = [k \in 1..Len(fam.reg) |-> get_subjects(fam.reg)[k].name]
        /\ df = <<>>
        /\ schools = <<>>
        /\ statistics = <<>>
        /\ analysis = None
        /\ pc = "constructed"
        /\ GuiInit

Init == \E fam \in Families : Constructed(fam)

load_data ==
    /\ pc = "constructed"
    /\ df' = _clean_data(excel_file, subjects)
    /\ schools' = SortedSchools(df')
    /\ pc' = "loaded"
    /\ UNCHANGED <<run, threads, widgets, manager_subjects, snapshot, last_call, first_pass, excel_file, subjects, statistics, analysis>>

\* calculate_statistics: every subject in self.subjects, then the total, each
\* stored under its key of self.statistics. The registry holds every captured
\* name here, so get_subject finds each one.
calculate_statistics ==
    /\ pc = "loaded"
    /\ df' = WithTotals(df, subjects)
    /\ statistics' =
         [key \in DOMAIN statistics \cup SubjectSet(subjects) \cup {ZongFen} |->
            IF key = ZongFen
            THEN _calculate_total_stats(manager_subjects, df', schools)
            ELSE IF key \in SubjectSet(subjects)
            THEN _calculate_subject_stats(manager_subjects, df, schools, key)
            ELSE statistics[key]]
    /\ pc' = "calculated"
    /\ UNCHANGED <<run, threads, widgets, manager_subjects, snapshot, last_call, first_pass, excel_file, subjects, schools, analysis>>

generate_analysis_report ==
    /\ pc = "calculated"
    /\ IF AnalysisRaises(statistics, subjects)
       THEN /\ analysis' = [raised |-> "KeyError"]
            /\ pc' = "raised"
       ELSE /\ analysis' = [overall |-> _analyze_overall(statistics),
                            subjects |-> _analyze_subjects(statistics, subjects),
                            schools |-> _analyze_schools(statistics, subjects),
                            recommendations |-> _generate_recommendations(statistics, subjects)]
            /\ pc' = "reported"
    /\ UNCHANGED <<run, threads, widgets, manager_subjects, snapshot, last_call, first_pass, excel_file, subjects, df, schools, statistics>>

Next ==
    \/ load_data
    \/ calculate_statistics
    \/ generate_analysis_report

Spec == Init /\ [][Next]_vars

(***************************************************************************)
(* A second pass on the same engine: calculate_statistics and              *)
(* generate_analysis_report called again on the instance that has already  *)
(* run them, with self.df and self.statistics as the first pass left them. *)
(***************************************************************************)
calculate_statistics_again ==
    /\ pc \in {"reported", "raised"}
    /\ first_pass' = [df |-> df, statistics |-> statistics, analysis |-> analysis]
    /\ df' = WithTotals(df, subjects)
    /\ statistics' =
         [key \in DOMAIN statistics \cup SubjectSet(subjects) \cup {ZongFen} |->
            IF key = ZongFen
            THEN _calculate_total_stats(manager_subjects, df', schools)
            ELSE IF key \in SubjectSet(subjects)
            THEN _calculate_subject_stats(manager_subjects, df, schools, key)
            ELSE statistics[key]]
    /\ pc' = "calculated_again"
    /\ UNCHANGED <<run, threads, widgets, manager_subjects, snapshot, last_call, excel_file, subjects, schools, analysis>>

generate_analysis_report_again ==
    /\ pc = "calculated_again"
    /\ IF AnalysisRaises(statistics, subjects)
       THEN /\ analysis' = [raised |-> "KeyError"]
            /\ pc' = "raised_again"
       ELSE /\ analysis' = [overall |-> _analyze_overall(statistics),
                            subjects |-> _analyze_subjects(statistics, subjects),
                            schools |-> _analyze_schools(statistics, subjects),
                            recommendations |-> _generate_recommendations(statistics, subjects)]
            /\ pc' = "reported_again"
    /\ UNCHANGED <<run, threads, widgets, manager_subjects, snapshot, last_call, first_pass, excel_file, subjects, df,
                   schools, statistics>>

TwoPassNext ==
    \/ load_data
    \/ calculate_statistics
    \/ generate_analysis_report
    \/ calculate_statistics_again
    \/ generate_analysis_report_again

TwoPassSpec == Init /\ [][TwoPassNext]_vars

(***************************************************************************)
(* The same engine over a registry in which a subject is named like the    *)
(* column the total calculator writes (the name is free text in the GUI's  *)
(* add dialog, and auto-detection takes any header as a name).             *)
(***************************************************************************)
NamedTotalInit == Constructed(NamedTotalFamily)

NamedTotalSpec == NamedTotalInit /\ [][TwoPassNext]_vars

(***************************************************************************)
(* The same engine over sheets whose absence columns hold more than the    *)
(* two markers: a cell left blank, which pandas reads as NaN and which is  *)
(* equal to neither marker.                                                *)
(***************************************************************************)
BlankMarker == "NaN"

MarkerOpts(cfg) ==
    PresentOpts(cfg) \o << <<"Y", NumCell(1)>>, <<BlankMarker, NumCell(1)>> >>

RECURSIVE MarkerBodyList(_, _)
MarkerBodyList(reg, k) ==
    IF k > Len(reg) THEN << <<>> >>
    ELSE ListProduct(MarkerOpts(reg[k]), MarkerBodyList(reg, k + 1))

MarkerFamily ==
    [reg |-> RegTwo, layout |-> RegTwo,
     types |-> ListProduct(<< <<SchoolNames[1]>> >>, MarkerBodyList(RegTwo, 1)),
     maxRows |-> MaxMarkerRows]

MarkerInit == Constructed(MarkerFamily)

MarkerSpec == MarkerInit /\ [][Next]_vars

(***************************************************************************)
(* Auto-detection: the GUI has the registry detect its subjects from the   *)
(* chosen file, then an engine is constructed over that registry and loads *)
(* the same file.                                                          *)
(***************************************************************************)
BeiZhu == <<"bei", "zhu">>
WaiYu == <<"wai", "yu">>
YingYu == <<"ying", "yu">>
KeXue == <<"ke", "xue">>
SheHui == <<"she", "hui">>
SheZheng == <<"she", "zheng">>
TiYu == <<"ti", "yu">>
\* a header that holds a subject's name and more (shu xue fu jia)
ShuXueFuJia == ShuXue \o <<"fu", "jia">>

\* subject_scores, in the order the dict is written
subject_scores ==
    << <<YuWen, 150>>, <<ShuXue, 150>>, <<WaiYu, 120>>, <<YingYu, 120>>,
       <<KeXue, 180>>, <<SheHui, 100>>, <<SheZheng, 100>>, <<TiYu, 40>> >>

\* the inner loop of auto_detect_from_excel: the score of the first key the
\* header contains, 150 when it contains none
DetectedMaxScore(subject_col) ==
    LET hits == {k \in 1..Len(subject_scores) : Contains(subject_scores[k][1], subject_col)}
    IN  IF hits = {} THEN 150
        ELSE subject_scores[CHOOSE k \in hits : \A j \in hits : k <= j][2]

\* the while loop of auto_detect_from_excel: i = 4, 6, ... (0-based) while
\* i + 1 < len(cols), the subject named after cols[i + 1]
Detected(cols) ==
    [k \in 1..(IF Len(cols) >= 4 THEN (Len(cols) - 4) \div 2 ELSE 0) |->
        SubjectConfig(cols[4 + 2 * k], DetectedMaxScore(cols[4 + 2 * k]), 60, 80)]

\* pandas.read_excel renames the n-th repeat of a header "x" to "x.n"
DupSuffix == <<".1", ".2", ".3", ".4">>
MangleDupeCols(raw) ==
    [i \in 1..Len(raw) |->
        LET n == Cardinality({j \in 1..(i - 1) : raw[j] = raw[i]})
        IN  IF n = 0 THEN raw[i] ELSE raw[i] \o <<DupSuffix[n]>>]

\* The sheets detection is run on: one to MaxDetectPairs pairs of an absence
\* column and a score column after the four identity columns, the first
\* absence column headed by the marker alone or by the subject and the marker,
\* then a remark column or none; no row, or one student.
ScoreHeaders == {ShuXue, YuWen, ShuXueFuJia}

RECURSIVE PairCols(_, _, _)
PairCols(first_absent, scores, k) ==
    IF k > Len(scores) THEN <<>>
    ELSE <<IF k = 1 THEN first_absent ELSE QueKao, scores[k]>>
            \o PairCols(first_absent, scores, k + 1)

RECURSIVE PairCells(_, _, _)
PairCells(n, k, present) ==
    IF k > n THEN <<>>
    ELSE (IF present THEN <<"N", NumCell(k)>> ELSE <<"Y", NumCell(0)>>)
            \o PairCells(n, k + 1, present)

DetectSheets ==
    {[cols |-> MangleDupeCols(<<KaoHao, XingMing, XueXiaoMingCheng, BanJiMingCheng>>
                                \o PairCols(first_absent, scores, 1)
                                \o (IF remark THEN <<BeiZhu>> ELSE <<>>)),
      rows |-> [r \in 1..Len(kinds) |->
                    <<r, "stu", "A", "c1">> \o PairCells(Len(scores), 1, kinds[r])
                        \o (IF remark THEN <<TextCell>> ELSE <<>>)]] :
        <<first_absent, scores, remark, kinds>> \in
            {<<IF own THEN sc[1] \o QueKao ELSE QueKao, sc, rm, kd>> :
                <<own, sc, rm, kd>> \in
                    BOOLEAN \X (UNION {[1..n -> ScoreHeaders] : n \in 1..MaxDetectPairs})
                        \X BOOLEAN \X {<<>>, <<TRUE>>, <<FALSE>>}}}

DetectInit ==
    /\ manager_subjects = <<>>
    /\ snapshot = [alias |-> FALSE, items |-> <<>>]
    /\ last_call = Call("__init__", <<>>, None)
    /\ first_pass = None
    /\ excel_file \in DetectSheets
    /\ subjects = <<>>
    /\ df = <<>>
    /\ schools = <<>>
    /\ statistics = <<>>
    /\ analysis = None
    /\ pc = "opened"
    /\ GuiInit

\* SubjectManager.auto_detect_from_excel on the chosen file
auto_detect_from_excel ==
    /\ pc = "opened"
    /\ manager_subjects' = Detected(excel_file.cols)
    /\ last_call' = Call("auto_detect_from_excel", <<>>, Detected(excel_file.cols))
    /\ pc' = "detected"
    /\ UNCHANGED <<run, threads, widgets, snapshot, first_pass, excel_file, subjects, df, schools, statistics, analysis>>

\* GradeAnalysisCore.__init__ over the detected registry and the same file
GradeAnalysisCore_init ==
    /\ pc \in {"detected", "started"}
    /\ subjects' = [k \in 1..Len(get_subjects(manager_subjects)) |->
                        get_subjects(manager_subjects)[k].name]
    /\ pc' = "constructed"
    /\ UNCHANGED <<run, threads, widgets, manager_subjects, snapshot, last_call, first_pass, excel_file, df, schools,
                   statistics, analysis>>

DetectNext ==
    \/ auto_detect_from_excel
    \/ GradeAnalysisCore_init
    \/ load_data

DetectSpec == DetectInit /\ [][DetectNext]_vars

(***************************************************************************)
(* The registry on its own: a client (the GUI's subject panel) calls       *)
(* SubjectManager and keeps the list get_subjects returned.                *)
(***************************************************************************)
RegistryNames == {ShuXue, YuWen}
RegistryConfigs ==
    {SubjectConfig(ShuXue, 2, 50, 100), SubjectConfig(ShuXue, 1, 50, 100),
     SubjectConfig(YuWen, 1, 60, 80)}

core_vars == <<first_pass, excel_file, subjects, df, schools, statistics, analysis, pc, run, threads, widgets>>

HasName(registry, name) == \E i \in 1..Len(registry) : registry[i].name = name

\* The effect on the returned list of a change made in place to the
\* registry's list, and of the registry binding a new list
ChangedInPlace(items) == IF snapshot.alias THEN [snapshot EXCEPT !.items = items] ELSE snapshot
Rebound == [snapshot EXCEPT !.alias = FALSE]

RegistryInit ==
    /\ manager_subjects = <<>>
    /\ snapshot = [alias |-> FALSE, items |-> <<>>]
    /\ last_call = Call("__init__", <<>>, None)
    /\ first_pass = None
    /\ excel_file = Sheet(CohortFamily, <<>>)
    /\ subjects = <<>>
    /\ df = <<>>
    /\ schools = <<>>
    /\ statistics = <<>>
    /\ analysis = None
    /\ pc = "registry"
    /\ GuiInit

\* A slip: a configuration whose name is present takes the place of the old one
AddOrReplace(config) ==
    /\ pc = "registry"
    /\ HasName(manager_subjects, config.name) \/ Len(manager_subjects) < MaxRegistry
    /\ IF ~HasName(manager_subjects, config.name)
       THEN /\ manager_subjects' = Append(manager_subjects, config)
            /\ snapshot' = ChangedInPlace(manager_subjects')
            /\ last_call' = Call("add_subject", <<config>>, TRUE)
       ELSE /\ manager_subjects' =
                 [i \in 1..Len(manager_subjects) |->
                    IF manager_subjects[i].name = config.name THEN config
                    ELSE manager_subjects[i]]
            /\ snapshot' = ChangedInPlace(manager_subjects')
            /\ last_call' = Call("add_subject", <<config>>, FALSE)
    /\ UNCHANGED core_vars

add_subject(config) ==
    /\ pc = "registry"
    /\ HasName(manager_subjects, config.name) \/ Len(manager_subjects) < MaxRegistry
    /\ IF ~HasName(manager_subjects, config.name)
       THEN /\ manager_subjects' = Append(manager_subjects, config)
            /\ snapshot' = ChangedInPlace(manager_subjects')
            /\ last_call' = Call("add_subject", <<config>>, TRUE)
       ELSE /\ last_call' = Call("add_subject", <<config>>, FALSE)
            /\ UNCHANGED <<manager_subjects, snapshot>>
    /\ UNCHANGED core_vars

remove_subject(name) ==
    /\ pc = "registry"
    /\ manager_subjects' = SelectSeq(manager_subjects, LAMBDA c : c.name # name)
    /\ snapshot' = Rebound
    /\ last_call' = Call("remove_subject", <<name>>, None)
    /\ UNCHANGED core_vars

update_subject(name, config) ==
    /\ pc = "registry"
    /\ IF HasName(manager_subjects, name)
       THEN LET i == CHOOSE i \in 1..Len(manager_subjects) :
                        /\ manager_subjects[i].name = name
                        /\ \A j \in 1..(i - 1) : manager_subjects[j].name # name
            IN  /\ manager_subjects' = [manager_subjects EXCEPT ![i] = config]
                /\ snapshot' = ChangedInPlace(manager_subjects')
                /\ last_call' = Call("update_subject", <<name, config>>, TRUE)
       ELSE /\ last_call' = Call("update_subject", <<name, config>>, FALSE)
            /\ UNCHANGED <<manager_subjects, snapshot>>
    /\ UNCHANGED core_vars

call_get_subject(name) ==
    /\ pc = "registry"
    /\ last_call' = Call("get_subject", <<name>>, get_subject(manager_subjects, name))
    /\ UNCHANGED <<manager_subjects, snapshot>>
    /\ UNCHANGED core_vars

call_get_subjects ==
    /\ pc = "registry"
    /\ snapshot' = ListCopy(manager_subjects)
    /\ last_call' = Call("get_subjects", <<>>, None)
    /\ UNCHANGED manager_subjects
    /\ UNCHANGED core_vars

clear ==
    /\ pc = "registry"
    /\ manager_subjects' = <<>>
    /\ snapshot' = Rebound
    /\ last_call' = Call("clear", <<>>, None)
    /\ UNCHANGED core_vars

\* What the caller does to the list it was given: append, pop, reverse. The
\* registry's list changes with it only if it is the same list object.
ChangeReturnedList(op, args, items) ==
    /\ pc = "registry"
    /\ snapshot' = [snapshot EXCEPT !.items = items]
    /\ manager_subjects' = IF snapshot.alias THEN items ELSE manager_subjects
    /\ last_call' = Call(op, args, None)
    /\ UNCHANGED core_vars

returned_append(config) ==
    /\ Len(snapshot.items) < MaxRegistry
    /\ ChangeReturnedList("returned.append", <<config>>, Append(snapshot.items, config))

returned_pop ==
    /\ snapshot.items # <<>>
    /\ ChangeReturnedList("returned.pop", <<>>, SubSeq(snapshot.items, 1, Len(snapshot.items) - 1))

returned_reverse ==
    /\ Len(snapshot.items) >= 2
    /\ ChangeReturnedList("returned.reverse", <<>>,
                          [i \in 1..Len(snapshot.items) |->
                              snapshot.items[Len(snapshot.items) + 1 - i]])

RegistryNext ==
    \/ \E config \in RegistryConfigs : add_subject(config)
    \/ \E name \in RegistryNames : remove_subject(name)
    \/ \E name \in RegistryNames : \E config \in RegistryConfigs : update_subject(name, config)
    \/ \E name \in RegistryNames : call_get_subject(name)
    \/ call_get_subjects
    \/ clear
    \/ \E config \in RegistryConfigs : returned_append(config)
    \/ returned_pop
    \/ returned_reverse

RegistrySpec == RegistryInit /\ [][RegistryNext]_vars

(***************************************************************************)
(* A run on the GUI's worker thread (_generate_report_thread and           *)
(* _export_excel_thread construct an engine over self.subject_manager,     *)
(* load the file and calculate the statistics) while the main thread runs  *)
(* the subject panel's handlers on the same registry. The worker's steps   *)
(* are its calls on the registry: get_subject once per subject, then five  *)
(* get_subjects for the total's thresholds.                                *)
(***************************************************************************)
WorkerFamily == [reg |-> RegTwo, layout |-> RegTwo, types |-> RowTypes(RegTwo, 1, FALSE), maxRows |-> MaxWorkerRows]

\* what the user may leave in a subject's card before saving: max score,
\* pass percent, excellence percent
SavedSettings == {<<2, 50, 100>>, <<4, 100, 100>>}

WorkerInit ==
    \E n \in 0..WorkerFamily.maxRows :
      \E idx \in NonDecreasing(n, 1, Len(WorkerFamily.types)) :
        /\ manager_subjects = WorkerFamily.reg
        /\ snapshot = [alias |-> FALSE, items |-> <<>>]
        /\ last_call = Call("__init__", <<>>, None)
        /\ first_pass = None
        /\ excel_file = Sheet(WorkerFamily, idx)
        /\ subjects = <<>>
        /\ df = <<>>
        /\ schools = <<>>
        /\ statistics = <<>>
        /\ analysis = None
        /\ pc = "started"
        /\ GuiInit

\* one turn of the loop of calculate_statistics: _calculate_subject_stats for
\* the next captured name, which raises AttributeError on config.max_score
\* when get_subject returns None
calculate_subject ==
    /\ pc \in {"loaded", "subjects"}
    /\ Len(run.config_used) < Len(subjects)
    /\ LET subject == subjects[Len(run.config_used) + 1]
            config == get_subject(manager_subjects, subject)
       IN  IF config = None
           THEN /\ analysis' = [raised |-> "AttributeError"]
                /\ pc' = "raised"
                /\ UNCHANGED <<statistics, run>>
           ELSE /\ statistics' =
                     [key \in DOMAIN statistics \cup {subject} |->
                        IF key = subject
                        THEN _calculate_subject_stats(<<config>>, df, schools, subject)
                        ELSE statistics[key]]
                /\ run' = [run EXCEPT !.config_used = Append(@, config)]
                /\ pc' = "subjects"
                /\ UNCHANGED analysis
    /\ UNCHANGED <<manager_subjects, snapshot, last_call, first_pass, excel_file, subjects, df,
                   schools, threads, widgets>>

\* The head of _calculate_total_stats, one get_subjects at a time: the sum of
\* max_score; the sum of pass_percent, then len; the sum of
\* excellence_percent, then len. Dividing by a len of 0 raises.
TotalRead(registry, n) ==
    LET listed == get_subjects(registry)
    IN  IF n = 1 THEN SeqSum([k \in 1..Len(listed) |-> listed[k].max_score])
        ELSE IF n = 2 THEN SeqSum([k \in 1..Len(listed) |-> listed[k].pass_percent])
        ELSE IF n = 4 THEN SeqSum([k \in 1..Len(listed) |-> listed[k].excellence_percent])
        ELSE Len(listed)

read_for_total ==
    /\ pc \in {"loaded", "subjects", "totalling"}
    /\ Len(run.config_used) = Len(subjects)
    /\ Len(run.reads) < 5
    /\ LET n == Len(run.reads) + 1
       IN  IF n \in {3, 5} /\ TotalRead(manager_subjects, n) = 0
           THEN /\ analysis' = [raised |-> "ZeroDivisionError"]
                /\ pc' = "raised"
                /\ UNCHANGED run
           ELSE /\ run' = [run EXCEPT !.reads = Append(@, TotalRead(manager_subjects, n))]
                /\ pc' = "totalling"
                /\ UNCHANGED analysis
    /\ UNCHANGED <<manager_subjects, snapshot, last_call, first_pass, excel_file, subjects, df,
                   schools, statistics, threads, widgets>>

\* the rest of _calculate_total_stats, with the thresholds from what was read
calculate_total ==
    /\ pc = "totalling"
    /\ Len(run.reads) = 5
    /\ df' = WithTotals(df, subjects)
    /\ statistics' =
         [key \in DOMAIN statistics \cup {ZongFen} |->
            IF key = ZongFen
            THEN TotalStatsFrom(run.reads[1],
                                Frac(run.reads[1] * run.reads[2], run.reads[3] * 100),
                                Frac(run.reads[1] * run.reads[4], run.reads[5] * 100),
                                df', schools)
            ELSE statistics[key]]
    /\ pc' = "calculated"
    /\ UNCHANGED <<manager_subjects, snapshot, last_call, first_pass, excel_file, subjects,
                   schools, analysis, run, threads, widgets>>

RunInProgress == pc \in {"started", "constructed", "loaded", "subjects", "totalling"}

\* _delete_subject, confirmed in the dialog: remove_subject(name)
_delete_subject(name) ==
    /\ RunInProgress
    /\ HasName(manager_subjects, name)
    /\ manager_subjects' = SelectSeq(manager_subjects, LAMBDA c : c.name # name)
    /\ last_call' = Call("remove_subject", <<name>>, None)
    /\ UNCHANGED <<snapshot>>
    /\ UNCHANGED core_vars

\* _save_subject_config of a listed subject: update_subject(name, new_config)
_save_subject_config(name, setting) ==
    /\ RunInProgress
    /\ HasName(manager_subjects, name)
    /\ LET new_config == SubjectConfig(name, setting[1], setting[2], setting[3])
           i == CHOOSE i \in 1..Len(manager_subjects) :
                    /\ manager_subjects[i].name = name
                    /\ \A j \in 1..(i - 1) : manager_subjects[j].name # name
       IN  /\ manager_subjects' = [manager_subjects EXCEPT ![i] = new_config]
           /\ last_call' = Call("update_subject", <<name, new_config>>, TRUE)
    /\ UNCHANGED <<snapshot>>
    /\ UNCHANGED core_vars

WorkerNext ==
    \/ GradeAnalysisCore_init
    \/ load_data
    \/ calculate_subject
    \/ read_for_total
    \/ calculate_total
    \/ \E name \in RegistryNames : _delete_subject(name)
    \/ \E name \in RegistryNames : \E setting \in SavedSettings :
            _save_subject_config(name, setting)

WorkerSpec == WorkerInit /\ [][WorkerNext]_vars

(***************************************************************************)
(* The two background workers and the widgets they write. A worker is the  *)
(* try block of its thread function, statement by statement, then its      *)
(* finally block; the engine's calls are taken by their outcome. Progress   *)
(* is in tenths; the status texts are jia zai (loading), ji suan            *)
(* (calculating), sheng cheng (generating), dao chu (exporting), wan cheng  *)
(* (done), jiu xu (ready).                                                  *)
(***************************************************************************)
Workers == {"report", "excel"}

Statement(line, kind, value, text) == [line |-> line, kind |-> kind, value |-> value, text |-> text]

\* the try block of _generate_report_thread
ReportTry ==
    << Statement(503, "button", "disabled", ""),
       Statement(509, "update_progress", 1, "jiazai"),
       Statement(514, "load_data", 0, ""),
       Statement(518, "update_progress", 3, "jisuan"),
       Statement(519, "call", 0, ""),
       Statement(521, "update_progress", 6, "shengcheng"),
       Statement(522, "call_with_progress", 10, "baogao wancheng"),
       Statement(524, "update_progress", 10, "wancheng"),
       Statement(526, "messagebox", 0, "") >>

\* the try block of _export_excel_thread
ExcelTry ==
    << Statement(568, "button", "disabled", ""),
       Statement(569, "status", 0, "jiazai"),
       Statement(570, "progress", 2, ""),
       Statement(575, "load_data", 0, ""),
       Statement(579, "status", 0, "jisuan"),
       Statement(580, "progress", 5, ""),
       Statement(581, "call", 0, ""),
       Statement(583, "status", 0, "daochu"),
       Statement(584, "progress", 8, ""),
       Statement(585, "call", 0, ""),
       Statement(587, "progress", 10, ""),
       Statement(588, "status", 0, "wancheng"),
       Statement(590, "messagebox", 0, "") >>

\* the finally block, the same three statements in both
FinallyOf(w) ==
    << Statement(IF w = "report" THEN 533 ELSE 597, "button", "normal", ""),
       Statement(IF w = "report" THEN 534 ELSE 598, "progress", 0, ""),
       Statement(IF w = "report" THEN 535 ELSE 599, "status", 0, JiuXu) >>

TryOf(w) == IF w = "report" THEN ReportTry ELSE ExcelTry
ButtonOf(w) == IF w = "report" THEN "export_btn" ELSE "excel_btn"

\* the widgets after a statement that writes one
Write(stmt, w) ==
    IF stmt.kind = "button" THEN [widgets EXCEPT ![ButtonOf(w)] = stmt.value]
    ELSE IF stmt.kind = "progress" THEN [widgets EXCEPT !.progress = stmt.value]
    ELSE IF stmt.kind = "status" THEN [widgets EXCEPT !.status_label = stmt.text]
    ELSE [widgets EXCEPT !.progress = stmt.value, !.status_label = stmt.text]

\* how a call in the try block may end: load_data returns False when the file
\* cannot be read; any call may raise
Outcomes(kind) ==
    IF kind = "load_data" THEN {"ok", "false", "raise"}
    ELSE IF kind = "messagebox" THEN {"ok"}
    ELSE {"ok", "raise"}

\* the worker after its statement i of the try block
Advance(w) ==
    IF threads[w].i = Len(TryOf(w)) THEN [at |-> "finally", i |-> 1]
    ELSE [at |-> "try", i |-> threads[w].i + 1]

ThreadsInit ==
    /\ manager_subjects = RegTwo
    /\ snapshot = [alias |-> FALSE, items |-> <<>>]
    /\ last_call = Call("__init__", <<>>, None)
    /\ first_pass = None
    /\ excel_file = Sheet(CohortFamily, <<>>)
    /\ subjects = <<>>
    /\ df = <<>>
    /\ schools = <<>>
    /\ statistics = <<>>
    /\ analysis = None
    /\ pc = "gui"
    /\ GuiInit

engine_vars == <<manager_subjects, snapshot, last_call, first_pass, excel_file, subjects, df,
                 schools, statistics, analysis, pc, run>>

\* _generate_report: a file is chosen and the registry is not empty; the
\* thread is started
_generate_report ==
    /\ threads["report"].at = "none"
    /\ get_subjects(manager_subjects) # <<>>
    /\ threads' = [threads EXCEPT !["report"] = [at |-> "try", i |-> 1]]
    /\ UNCHANGED <<widgets, engine_vars>>

\* _export_excel, likewise
_export_excel ==
    /\ threads["excel"].at = "none"
    /\ get_subjects(manager_subjects) # <<>>
    /\ threads' = [threads EXCEPT !["excel"] = [at |-> "try", i |-> 1]]
    /\ UNCHANGED <<widgets, engine_vars>>

\* a statement of the try block that writes a widget
thread_write(w) ==
    /\ threads[w].at = "try"
    /\ TryOf(w)[threads[w].i].kind \in {"button", "progress", "status", "update_progress"}
    /\ widgets' = Write(TryOf(w)[threads[w].i], w)
    /\ threads' = [threads EXCEPT ![w] = Advance(w)]
    /\ UNCHANGED engine_vars

\* a call of the try block: it returns and the worker goes on, or load_data
\* returns False and the worker returns, or it raises and the except clause
\* shows the error; the last two lead to the finally block
thread_call(w) ==
    /\ threads[w].at = "try"
    /\ TryOf(w)[threads[w].i].kind \in {"load_data", "call", "call_with_progress", "messagebox"}
    /\ \E outcome \in Outcomes(TryOf(w)[threads[w].i].kind) :
        IF outcome = "ok"
        THEN /\ threads' = [threads EXCEPT ![w] = Advance(w)]
             /\ widgets' = IF TryOf(w)[threads[w].i].kind = "call_with_progress"
                           THEN Write(TryOf(w)[threads[w].i], w)
                           ELSE widgets
        ELSE /\ threads' = [threads EXCEPT ![w] = [at |-> "finally", i |-> 1]]
             /\ UNCHANGED widgets
    /\ UNCHANGED engine_vars

\* a statement of the finally block; the thread ends after the third
thread_finally(w) ==
    /\ threads[w].at = "finally"
    /\ widgets' = Write(FinallyOf(w)[threads[w].i], w)
    /\ threads' = [threads EXCEPT ![w] =
                        IF threads[w].i = Len(FinallyOf(w)) THEN [at |-> "ended", i |-> 0]
                        ELSE [at |-> "finally", i |-> threads[w].i + 1]]
    /\ UNCHANGED engine_vars

_generate_report_thread ==
    \/ thread_write("report")
    \/ thread_call("report")
    \/ thread_finally("report")

_export_excel_thread ==
    \/ thread_write("excel")
    \/ thread_call("excel")
    \/ thread_finally("excel")

ThreadsNext ==
    \/ _generate_report
    \/ _export_excel
    \/ _generate_report_thread
    \/ _export_excel_thread

ThreadsSpec == ThreadsInit /\ [][ThreadsNext]_vars

(***************************************************************************)
(* Properties. They are stated over the working table and the registry,    *)
(* by counting rows, not with the operators the calculators are built of.  *)
(***************************************************************************)
Computed == pc \in {"calculated", "reported", "raised"}

\* The rows of self.df that count for a key of self.statistics: for a subject
\* those marked 'N' that hold a score, for the total those flagged valid.
EligibleRows(key) ==
    {r \in 1..Len(df) :
        IF key = ZongFen THEN df[r].youxiao
        ELSE df[r].marks[key].absent = "N" /\ ~df[r].marks[key].score.isna}

ScoreOfRow(key, r) == IF key = ZongFen THEN df[r].zongfen ELSE df[r].marks[key].score.val

NumAbove(key, v) == Cardinality({r \in EligibleRows(key) : ScoreOfRow(key, r) > v})
NumAtLeast(key, v) == Cardinality({r \in EligibleRows(key) : ScoreOfRow(key, r) >= v})
NumBelow(key, v) == Cardinality({r \in EligibleRows(key) : ScoreOfRow(key, r) < v})
NumAtMost(key, v) == Cardinality({r \in EligibleRows(key) : ScoreOfRow(key, r) <= v})

\* The score at 1-indexed rank k of the eligible scores in descending order
NthHighest(key, k) ==
    CHOOSE v \in {ScoreOfRow(key, r) : r \in EligibleRows(key)} :
        NumAbove(key, v) < k /\ k <= NumAtLeast(key, v)

HighestScore(key) ==
    CHOOSE v \in {ScoreOfRow(key, r) : r \in EligibleRows(key)} : NumAbove(key, v) = 0
LowestScore(key) ==
    CHOOSE v \in {ScoreOfRow(key, r) : r \in EligibleRows(key)} : NumBelow(key, v) = 0

\* C1: for every subject and for the total, with n >= 1 eligible scores,
\* top30_line is the score at 1-indexed rank floor(n*0.3) of the descending
\* order when floor(n*0.3) >= 1, and the highest eligible score otherwise.
C1_Top30Line ==
    Computed =>
        \A key \in DOMAIN statistics :
            LET n == Cardinality(EligibleRows(key)) IN
            n >= 1 =>
                statistics[key].top30_line =
                    IF (3 * n) \div 10 >= 1 THEN NthHighest(key, (3 * n) \div 10)
                    ELSE HighestScore(key)

\* Ten eligible scores in a subject and in the total, the third highest below
\* the highest.
C1_Witness ==
    /\ pc = "calculated"
    /\ \A key \in {ShuXue, ZongFen} :
        /\ key \in DOMAIN statistics
        /\ Cardinality(EligibleRows(key)) = 10
        /\ statistics[key].top30_line = NthHighest(key, 3)
        /\ statistics[key].top30_line < HighestScore(key)

\* C2: for every subject and for the total, with n >= 1 eligible scores,
\* bottom20_line is the score at 0-indexed position floor(n*0.8) of the
\* descending order when that position is below n, and the lowest eligible
\* score otherwise.
C2_Bottom20Line ==
    Computed =>
        \A key \in DOMAIN statistics :
            LET n == Cardinality(EligibleRows(key)) IN
            n >= 1 =>
                statistics[key].bottom20_line =
                    IF (8 * n) \div 10 < n THEN NthHighest(key, ((8 * n) \div 10) + 1)
                    ELSE LowestScore(key)

\* Ten eligible scores in a subject and in the total, the ninth highest above
\* the lowest.
C2_Witness ==
    /\ pc = "calculated"
    /\ \A key \in {ShuXue, ZongFen} :
        /\ key \in DOMAIN statistics
        /\ Cardinality(EligibleRows(key)) = 10
        /\ statistics[key].bottom20_line = NthHighest(key, 9)
        /\ statistics[key].bottom20_line > LowestScore(key)

SchoolRowIdx(data) == {i \in 1..Len(data) : data[i].school # QuanQu}

\* The per-school rows with a strictly better value than row i
NumBetter(data, i, field, lower_is_better) ==
    Cardinality({j \in SchoolRowIdx(data) :
        IF lower_is_better THEN FracLt(data[j][field], data[i][field])
        ELSE FracLt(data[i][field], data[j][field])})

\* C3: in every aggregate list each per-school row's rank for a metric is
\* 1 + the number of per-school rows with a strictly better value (higher is
\* better for pass_rate, excellence_rate, avg_score and top30_rate, lower for
\* bottom20_rate); the district-wide row is not counted and its five rank
\* fields are blank.
C3_Ranks ==
    Computed =>
        \A key \in DOMAIN statistics :
            LET data == statistics[key].data IN
            \A i \in 1..Len(data) :
                IF data[i].school = QuanQu
                THEN /\ data[i].pass_rank = ""
                     /\ data[i].excellence_rank = ""
                     /\ data[i].avg_rank = ""
                     /\ data[i].bottom20_rank = ""
                     /\ data[i].top30_rank = ""
                ELSE /\ data[i].pass_rank = 1 + NumBetter(data, i, "pass_rate", FALSE)
                     /\ data[i].excellence_rank = 1 + NumBetter(data, i, "excellence_rate", FALSE)
                     /\ data[i].avg_rank = 1 + NumBetter(data, i, "avg_score", FALSE)
                     /\ data[i].top30_rank = 1 + NumBetter(data, i, "top30_rate", FALSE)
                     /\ data[i].bottom20_rank = 1 + NumBetter(data, i, "bottom20_rate", TRUE)

\* Three schools, two tied on the average and ranked 1, the third ranked 3;
\* and a school with a lower bottom20_rate ranked ahead of one with a higher.
C3_Witness ==
    /\ pc = "calculated"
    /\ \E key \in DOMAIN statistics :
        LET data == statistics[key].data IN
        /\ Cardinality(SchoolRowIdx(data)) = 3
        /\ \E i, j, k \in SchoolRowIdx(data) :
            /\ i # j
            /\ FracEq(data[i].avg_score, data[j].avg_score)
            /\ data[i].avg_rank = 1 /\ data[j].avg_rank = 1 /\ data[k].avg_rank = 3
        /\ \E i, j \in SchoolRowIdx(data) :
            /\ FracLt(data[i].bottom20_rate, data[j].bottom20_rate)
            /\ data[i].bottom20_rank = 1 /\ data[j].bottom20_rank > 1
        /\ \E i \in 1..Len(data) : data[i].school = QuanQu /\ data[i].avg_rank = ""

\* The counts of the per-school rows of an aggregate list, added up
SumOfSchoolCounts(data) ==
    LET rows == SelectSeq(data, LAMBDA r : r.school # QuanQu)
    IN  SeqSum([i \in 1..Len(rows) |-> rows[i].count])

\* C4: for every subject and for the total, whenever the aggregate list is
\* not empty, the district-wide row's count is the sum of the counts of all
\* per-school rows of that list.
C4_DistrictCount ==
    Computed =>
        \A key \in DOMAIN statistics :
            LET data == statistics[key].data IN
            data # <<>> =>
                /\ Cardinality({i \in 1..Len(data) : data[i].school = QuanQu}) = 1
                /\ \A i \in 1..Len(data) :
                    data[i].school = QuanQu => data[i].count = SumOfSchoolCounts(data)

\* One subject with rows for two schools whose counts add up to the district's,
\* another subject in which a student marked 'N' has no score.
C4_Witness ==
    /\ pc = "calculated"
    /\ \E key \in DOMAIN statistics :
        LET data == statistics[key].data IN
        /\ Cardinality(SchoolRowIdx(data)) = 2
        /\ \E i \in 1..Len(data) : data[i].school = QuanQu /\ data[i].count = 2
    /\ \E key \in DOMAIN statistics \ {ZongFen} :
        /\ statistics[key].data # <<>>
        /\ \E r \in 1..Len(df) : df[r].marks[key].absent = "N" /\ df[r].marks[key].score.isna

\* A student is valid for the total: in every configured subject, not marked
\* absent ('Y') and with a score
ValidStudent(row) ==
    \A k \in 1..Len(manager_subjects) :
        /\ row.marks[manager_subjects[k].name].absent # "Y"
        /\ ~row.marks[manager_subjects[k].name].score.isna

SumOfScores(row) ==
    SeqSum([k \in 1..Len(manager_subjects) |-> row.marks[manager_subjects[k].name].score.val])

\* The count an aggregate list gives a school (or the district): 0 without a row
CountIn(data, school) ==
    IF \E i \in 1..Len(data) : data[i].school = school
    THEN data[CHOOSE i \in 1..Len(data) : data[i].school = school].count
    ELSE 0

\* C5: after the total statistics are computed, a student is flagged valid
\* and counted in the total aggregates iff in every configured subject the
\* student is not marked absent and has a score; a valid student's total is
\* the sum of the per-subject scores; an invalid student has total 0, is
\* counted in no school row and not in the district-wide row, and is still a
\* row of the dataset.
C5_TotalValidity ==
    Computed =>
        LET data == statistics[ZongFen].data IN
        /\ Len(df) = Len(excel_file.rows)
        /\ \A r \in 1..Len(df) :
            /\ df[r].youxiao = ValidStudent(df[r])
            /\ df[r].zongfen = IF ValidStudent(df[r]) THEN SumOfScores(df[r]) ELSE 0
        /\ CountIn(data, QuanQu) = Cardinality({r \in 1..Len(df) : ValidStudent(df[r])})
        /\ \A i \in 1..Len(data) : data[i].count >= 1
        /\ \A k \in 1..Len(schools) :
            CountIn(data, schools[k]) =
                Cardinality({r \in 1..Len(df) :
                    ValidStudent(df[r]) /\ df[r].school = schools[k]})

\* Two students of one school: one sat everything, the other is marked absent
\* in the first subject and has scores everywhere; only the first is counted.
C5_Witness ==
    /\ pc = "calculated"
    /\ subjects = <<ShuXue, YuWen>>
    /\ Len(df) = 2
    /\ df[1].school = df[2].school
    /\ \E r \in 1..2 :
        /\ df[r].marks[ShuXue].absent = "Y"
        /\ \A key \in DOMAIN df[r].marks : ~df[r].marks[key].score.isna
        /\ ~df[r].youxiao /\ df[r].zongfen = 0
    /\ \E r \in 1..2 : df[r].youxiao /\ df[r].zongfen = 3
    /\ CountIn(statistics[ZongFen].data, QuanQu) = 1
    /\ CountIn(statistics[ZongFen].data, df[1].school) = 1

\* The sheet that differs from excel_file only in row r's score for the
\* subject being missing, and the total statistics the engine computes on it
SheetWithMissingScore(r, subject) ==
    [excel_file EXCEPT !.rows[r][ScoreColumn(excel_file.cols, subject)] = BlankCell]

TotalStatsOn(sheet) ==
    LET table == _clean_data(sheet, subjects)
    IN  _calculate_total_stats(manager_subjects, WithTotals(table, subjects),
                               SortedSchools(table))

\* C6: for a student valid for the total, recomputing the total statistics on
\* the dataset that differs only in one of that student's subject scores (of
\* a subject the sheet has a column for) being missing gives aggregates
\* without that student: the district-wide count and the count of the
\* student's school each drop by exactly one (the school's row disappears if
\* its count was one) and no other school's count changes.
C6_MissingScoreRemovesStudent ==
    pc = "calculated" =>
        LET data == statistics[ZongFen].data IN
        \A r \in 1..Len(df) : \A k \in 1..Len(subjects) :
            (ValidStudent(df[r]) /\ ScoreColumn(excel_file.cols, subjects[k]) # 0) =>
                LET data2 == TotalStatsOn(SheetWithMissingScore(r, subjects[k])).data IN
                /\ CountIn(data2, QuanQu) = CountIn(data, QuanQu) - 1
                /\ CountIn(data2, df[r].school) = CountIn(data, df[r].school) - 1
                /\ CountIn(data, df[r].school) = 1 =>
                        ~\E i \in 1..Len(data2) : data2[i].school = df[r].school
                /\ \A j \in 1..Len(schools) :
                        schools[j] # df[r].school =>
                            CountIn(data2, schools[j]) = CountIn(data, schools[j])

\* Every student valid, one school counting two and another counting one: the
\* cases of a count that drops and of a row that disappears.
C6_Witness ==
    /\ pc = "calculated"
    /\ \A r \in 1..Len(df) : ValidStudent(df[r])
    /\ Len(subjects) = 2
    /\ \E a, b \in 1..Len(schools) :
        /\ CountIn(statistics[ZongFen].data, schools[a]) = 2
        /\ CountIn(statistics[ZongFen].data, schools[b]) = 1
        /\ \E r \in 1..Len(df) :
            /\ df[r].school = schools[b]
            /\ CountIn(TotalStatsOn(SheetWithMissingScore(r, subjects[2])).data, schools[b]) = 0
            /\ CountIn(TotalStatsOn(SheetWithMissingScore(r, subjects[2])).data, schools[a]) = 2

RegistrySum(field) == SeqSum([k \in 1..Len(manager_subjects) |-> manager_subjects[k][field]])

\* x * mean / 100, mean the arithmetic mean of a field over the registry
TimesMeanPercent(x, field) == Frac(x * RegistrySum(field), Len(manager_subjects) * 100)

\* C7: for a registry with at least one subject, the total statistics use
\* max_score = the sum of the subjects' max_score, pass_line = total_max *
\* (mean of the subjects' pass_percent) / 100 and excellence_line = total_max *
\* (mean of the subjects' excellence_percent) / 100.
C7_TotalThresholds ==
    (Computed /\ Len(manager_subjects) >= 1) =>
        LET total == statistics[ZongFen]
            total_max == RegistrySum("max_score")
        IN  /\ FracEq(total.pass_line, TimesMeanPercent(total_max, "pass_percent"))
            /\ FracEq(total.excellence_line, TimesMeanPercent(total_max, "excellence_percent"))
            /\ total.data # <<>> => total.max_score = total_max

\* Two subjects of maxima 2 and 1, pass percents 50 and 60, excellence
\* percents 100 and 80: the total's maximum is 3, its lines 1.65 and 2.7.
C7_Witness ==
    /\ pc = "calculated"
    /\ Len(manager_subjects) = 2
    /\ manager_subjects[1].pass_percent # manager_subjects[2].pass_percent
    /\ manager_subjects[1].max_score # manager_subjects[2].max_score
    /\ statistics[ZongFen].data # <<>>
    /\ statistics[ZongFen].max_score = 3
    /\ FracEq(statistics[ZongFen].pass_line, Frac(165, 100))
    /\ FracEq(statistics[ZongFen].excellence_line, Frac(27, 10))

\* The configuration the registry holds under a name
ConfigNamed(name) ==
    manager_subjects[CHOOSE k \in 1..Len(manager_subjects) : manager_subjects[k].name = name]

\* max_score * percent / 100 for a subject; for the total the thresholds of C7
PassLineOf(key) ==
    IF key = ZongFen THEN TimesMeanPercent(RegistrySum("max_score"), "pass_percent")
    ELSE Frac(ConfigNamed(key).max_score * ConfigNamed(key).pass_percent, 100)
ExcellenceLineOf(key) ==
    IF key = ZongFen THEN TimesMeanPercent(RegistrySum("max_score"), "excellence_percent")
    ELSE Frac(ConfigNamed(key).max_score * ConfigNamed(key).excellence_percent, 100)

EligibleOfSchool(key, school) == {r \in EligibleRows(key) : df[r].school = school}

\* 100 * #(rows of the set that are in good) / #(rows of the set)
PercentOf(rows, good) == Frac(100 * Cardinality(rows \cap good), Cardinality(rows))

\* C8: for every subject and the total, the aggregate list has one row for
\* exactly each school with at least one eligible student, and in that row
\* count is the number of the school's eligible students, pass_rate =
\* 100 * #(score >= pass_line) / count, excellence_rate = 100 * #(score >=
\* excellence_line) / count, bottom20_rate = 100 * #(score <= bottom20_line) /
\* count and top30_rate = 100 * #(score >= top30_line) / count, with pass_line
\* = max_score * pass_percent / 100, excellence_line = max_score *
\* excellence_percent / 100 and the district-wide percentile lines.
C8_SchoolRows ==
    Computed =>
        \A key \in DOMAIN statistics :
            LET st == statistics[key]
                data == st.data
            IN  /\ FracEq(st.pass_line, PassLineOf(key))
                /\ FracEq(st.excellence_line, ExcellenceLineOf(key))
                /\ \A k \in 1..Len(schools) :
                    LET mine == EligibleOfSchool(key, schools[k])
                        at == {i \in 1..Len(data) : data[i].school = schools[k]}
                    IN  IF mine = {} THEN at = {}
                        ELSE /\ Cardinality(at) = 1
                             /\ \A i \in at :
                                 /\ data[i].count = Cardinality(mine)
                                 /\ FracEq(data[i].pass_rate,
                                      PercentOf(mine, {r \in mine :
                                        FracLe(PassLineOf(key), FracInt(ScoreOfRow(key, r)))}))
                                 /\ FracEq(data[i].excellence_rate,
                                      PercentOf(mine, {r \in mine :
                                        FracLe(ExcellenceLineOf(key), FracInt(ScoreOfRow(key, r)))}))
                                 /\ FracEq(data[i].bottom20_rate,
                                      PercentOf(mine, {r \in mine :
                                        ScoreOfRow(key, r) <= st.bottom20_line}))
                                 /\ FracEq(data[i].top30_rate,
                                      PercentOf(mine, {r \in mine :
                                        ScoreOfRow(key, r) >= st.top30_line}))
                /\ \A i \in SchoolRowIdx(data) : \E k \in 1..Len(schools) : data[i].school = schools[k]

\* A school holding the scores 2 and 0 in a subject whose pass_line is 1 has
\* pass_rate 50, beside a school whose only student passes.
C8_Witness ==
    /\ pc = "calculated"
    /\ ShuXue \in DOMAIN statistics
    /\ FracEq(statistics[ShuXue].pass_line, FracInt(1))
    /\ \E i, j \in SchoolRowIdx(statistics[ShuXue].data) :
        LET data == statistics[ShuXue].data IN
        /\ data[i].count = 2
        /\ {ScoreOfRow(ShuXue, r) : r \in EligibleOfSchool(ShuXue, data[i].school)} = {0, 2}
        /\ FracEq(data[i].pass_rate, FracInt(50))
        /\ data[j].count = 1
        /\ FracEq(data[j].pass_rate, FracInt(100))

Reported == pc = "reported"

\* The district-wide row of a statistic, and its pass and excellence rates
DistrictRowOf(key) ==
    statistics[key].data[CHOOSE i \in 1..Len(statistics[key].data) :
                            statistics[key].data[i].school = QuanQu]
DistrictPassRate(key) == DistrictRowOf(key).pass_rate
DistrictExcellenceRate(key) == DistrictRowOf(key).excellence_rate

AtLeast(rate, n) == FracLe(FracInt(n), rate)
Below(rate, n) == FracLt(rate, FracInt(n))

\* C9: the overall performance level is decided from the total's district-wide
\* pass_rate p and excellence_rate e by the first matching rule in this order:
\* p >= 85 and e >= 20 gives excellent; p >= 75 and e >= 10 gives good;
\* p >= 60 and e >= 5 gives moderate; anything else gives needs improvement.
C9_PerformanceLevel ==
    Reported =>
        LET p == DistrictPassRate(ZongFen)
            e == DistrictExcellenceRate(ZongFen)
            excellent == AtLeast(p, 85) /\ AtLeast(e, 20)
            good == AtLeast(p, 75) /\ AtLeast(e, 10)
            moderate == AtLeast(p, 60) /\ AtLeast(e, 5)
            level == analysis.overall.level
        IN  /\ level \in {YouXiu, LiangHao, ZhongDeng, XuYaoGaiJin}
            /\ (level = YouXiu) <=> excellent
            /\ (level = LiangHao) <=> (~excellent /\ good)
            /\ (level = ZhongDeng) <=> (~excellent /\ ~good /\ moderate)
            /\ (level = XuYaoGaiJin) <=> (~excellent /\ ~good /\ ~moderate)

\* p = 72 and e = 8 (18 of 25 students pass, 2 of them excellent) give moderate.
C9_Witness ==
    /\ Reported
    /\ FracEq(DistrictPassRate(ZongFen), FracInt(72))
    /\ FracEq(DistrictExcellenceRate(ZongFen), FracInt(8))
    /\ analysis.overall.level = ZhongDeng

\* How many times an item occurs in the recommendation list
Occurrences(item) ==
    Cardinality({i \in 1..Len(analysis.recommendations) : analysis.recommendations[i] = item})

OverallPassItem == Recommendation(ZhengTiJianYi, ZhongYao, <<"hegelv">>)
OverallExcellenceItem == Recommendation(ZhengTiJianYi, ZhongYao, <<"youxiulv">>)
SubjectItem(name) == Recommendation(KeMuJianYi, JinJi, <<"hegelv", name>>)

\* C10: the recommendation list contains an important, overall pass-rate item
\* iff the total's district-wide pass_rate is strictly below 70, an important,
\* overall excellence item iff the total's district-wide excellence_rate is
\* strictly below 10, and for each configured subject exactly one urgent,
\* per-subject item iff that subject's district-wide pass_rate is strictly
\* below 60 (none otherwise); each rule is evaluated independently.
C10_Recommendations ==
    Reported =>
        /\ Occurrences(OverallPassItem) =
             (IF Below(DistrictPassRate(ZongFen), 70) THEN 1 ELSE 0)
        /\ Occurrences(OverallExcellenceItem) =
             (IF Below(DistrictExcellenceRate(ZongFen), 10) THEN 1 ELSE 0)
        /\ \A k \in 1..Len(subjects) :
             Occurrences(SubjectItem(subjects[k])) =
               (IF Below(DistrictPassRate(subjects[k]), 60) THEN 1 ELSE 0)
        /\ \A i \in 1..Len(analysis.recommendations) :
             (analysis.recommendations[i].type = KeMuJianYi) =>
               \E k \in 1..Len(subjects) :
                 analysis.recommendations[i] = SubjectItem(subjects[k])

\* The total passes everywhere (no pass-rate item) with nobody excellent (the
\* excellence item), while one subject is below 60 and the other is not.
C10_Witness ==
    /\ Reported
    /\ AtLeast(DistrictPassRate(ZongFen), 70)
    /\ Occurrences(OverallPassItem) = 0
    /\ Occurrences(OverallExcellenceItem) = 1
    /\ Occurrences(SubjectItem(YuWen)) = 1
    /\ Occurrences(SubjectItem(ShuXue)) = 0

SchoolItem(school) == Recommendation(XueXiaoJianYi, GuanZhu, <<"hou20", school>>)

\* The per-school rows of the total that come before row i in ascending order
\* of average score, rows of equal average in aggregate-list order
RowsBefore(data, i) ==
    {j \in SchoolRowIdx(data) :
        \/ FracLt(data[j].avg_score, data[i].avg_score)
        \/ FracEq(data[j].avg_score, data[i].avg_score) /\ j < i}

AmongThreeLowest(data, i) == Cardinality(RowsBefore(data, i)) < 3

\* C11: a watch, per-school recommendation is emitted for a school iff the
\* school is among the three per-school rows of the total statistics with the
\* lowest average score (all rows when there are fewer than three, never the
\* district-wide row) and its bottom20_rate is strictly above 30; at most
\* three such items exist.
C11_SchoolRecommendations ==
    Reported =>
        LET data == statistics[ZongFen].data
            recs == analysis.recommendations
        IN  /\ \A i \in SchoolRowIdx(data) :
                Occurrences(SchoolItem(data[i].school)) =
                  (IF AmongThreeLowest(data, i) /\ ~Below(data[i].bottom20_rate, 30)
                      /\ ~FracEq(data[i].bottom20_rate, FracInt(30))
                   THEN 1 ELSE 0)
            /\ \A k \in 1..Len(recs) :
                recs[k].type = XueXiaoJianYi =>
                    \E i \in SchoolRowIdx(data) : recs[k] = SchoolItem(data[i].school)
            /\ Cardinality({k \in 1..Len(recs) : recs[k].type = XueXiaoJianYi}) <= 3

\* Four schools: the one with the strictly highest average has half of its
\* students at or below the bottom-20% line and gets no item, while each of
\* the three others gets one.
C11_Witness ==
    /\ Reported
    /\ LET data == statistics[ZongFen].data IN
       /\ Cardinality(SchoolRowIdx(data)) = 4
       /\ \E i \in SchoolRowIdx(data) :
            /\ \A j \in SchoolRowIdx(data) \ {i} :
                 /\ FracLt(data[j].avg_score, data[i].avg_score)
                 /\ Occurrences(SchoolItem(data[j].school)) = 1
            /\ FracEq(data[i].bottom20_rate, FracInt(50))
            /\ i < 4
            /\ Occurrences(SchoolItem(data[i].school)) = 0

\* The place of an item's rule in the fixed sequence of rules
RuleOrder(item) ==
    IF item = OverallPassItem THEN 1
    ELSE IF item = OverallExcellenceItem THEN 2
    ELSE IF item.type = KeMuJianYi THEN 3
    ELSE 4

\* The position of the subject an item names in the subject iteration order
SubjectPosition(item) ==
    CHOOSE k \in 1..Len(subjects) : item = SubjectItem(subjects[k])

\* The total average score of the school an item names
TotalAverageOf(item) ==
    LET data == statistics[ZongFen].data
    IN  data[CHOOSE i \in SchoolRowIdx(data) : item = SchoolItem(data[i].school)].avg_score

NoRuleFires ==
    /\ AtLeast(DistrictPassRate(ZongFen), 70)
    /\ AtLeast(DistrictExcellenceRate(ZongFen), 10)
    /\ \A k \in 1..Len(subjects) : AtLeast(DistrictPassRate(subjects[k]), 60)
    /\ \A i \in SchoolRowIdx(statistics[ZongFen].data) :
         FracLe(statistics[ZongFen].data[i].bottom20_rate, FracInt(30))

\* C12: recommendations are emitted in a fixed order: the overall pass-rate
\* item, then the overall excellence-rate item, then per-subject items in the
\* subject iteration order, then per-school items in ascending order of total
\* average score; when no rule fires the analysis result still carries a
\* recommendation list and that list is empty.
C12_RecommendationOrder ==
    Reported =>
        LET recs == analysis.recommendations IN
        /\ "recommendations" \in DOMAIN analysis
        /\ \A i, j \in 1..Len(recs) :
             i < j =>
               /\ RuleOrder(recs[i]) <= RuleOrder(recs[j])
               /\ (RuleOrder(recs[i]) = 3 /\ RuleOrder(recs[j]) = 3) =>
                     SubjectPosition(recs[i]) < SubjectPosition(recs[j])
               /\ (RuleOrder(recs[i]) = 4 /\ RuleOrder(recs[j]) = 4) =>
                     FracLe(TotalAverageOf(recs[i]), TotalAverageOf(recs[j]))
        /\ NoRuleFires => recs = <<>>

\* The pass-rate item, a per-subject item and two per-school items, the
\* school later in the aggregate list first because its average is lower.
C12_Witness ==
    /\ Reported
    /\ LET recs == analysis.recommendations IN
       /\ Len(recs) = 4
       /\ recs[1] = OverallPassItem
       /\ recs[2] = SubjectItem(YuWen)
       /\ recs[3] = SchoolItem("B")
       /\ recs[4] = SchoolItem("A")
       /\ FracLt(TotalAverageOf(recs[3]), TotalAverageOf(recs[4]))

\* No rule fires and the list is empty.
C12_EmptyListReached ==
    Reported /\ NoRuleFires /\ analysis.recommendations = <<>>

\* C13: when the eligible-student set of a subject (or the valid-student set
\* of the total) is empty, the calculator does not raise: it returns the
\* empty-data sentinel, whose aggregate list is empty (no school row, no
\* district-wide row, no rank), whose pass_line and excellence_line are still
\* computed from the configuration, and which carries no top30_line and no
\* bottom20_line.
C13_EmptySentinel ==
    Computed =>
        \A key \in SubjectSet(subjects) \cup {ZongFen} :
            /\ key \in DOMAIN statistics
            /\ EligibleRows(key) = {} =>
                /\ statistics[key].data = <<>>
                /\ DOMAIN statistics[key] = {"data", "pass_line", "excellence_line"}
                /\ FracEq(statistics[key].pass_line, PassLineOf(key))
                /\ FracEq(statistics[key].excellence_line, ExcellenceLineOf(key))

\* Students are on the sheet, nobody is eligible in one subject and nobody is
\* valid for the total, while the other subject has its statistics.
C13_Witness ==
    /\ pc = "calculated"
    /\ Len(df) = 2
    /\ subjects = <<ShuXue, YuWen>>
    /\ EligibleRows(YuWen) = {} /\ statistics[YuWen].data = <<>>
    /\ EligibleRows(ZongFen) = {} /\ statistics[ZongFen].data = <<>>
    /\ FracEq(statistics[ZongFen].pass_line, Frac(165, 100))
    /\ FracEq(statistics[YuWen].pass_line, Frac(6, 10))
    /\ Cardinality(EligibleRows(ShuXue)) = 2 /\ statistics[ShuXue].data # <<>>

\* The configured subjects with no matching column in the source dataset
SubjectsWithoutColumn ==
    {subjects[k] : k \in {j \in 1..Len(subjects) : ScoreColumn(excel_file.cols, subjects[j]) = 0}}

\* C14: when a configured subject has no matching column in the source
\* dataset, the cleaned dataset holds a zero-score placeholder in which every
\* student is marked absent for that subject, so the per-subject calculator
\* sees zero eligible students and returns the empty-data sentinel for that
\* subject without raising.
C14_MissingColumnAllAbsent ==
    Computed =>
        \A s \in SubjectsWithoutColumn :
            /\ \A r \in 1..Len(df) :
                 /\ df[r].marks[s].score = [isna |-> FALSE, val |-> 0]
                 /\ df[r].marks[s].absent # "N"
            /\ EligibleRows(s) = {}
            /\ statistics[s].data = <<>>

\* What _clean_data does instead: the placeholder marks every student 'N',
\* the value the calculators read as having sat the exam, with score 0; every
\* student is eligible and the subject gets statistics over zeros.
C14_PlaceholderCountsEveryone ==
    Computed =>
        \A s \in SubjectsWithoutColumn :
            /\ \A r \in 1..Len(df) :
                 /\ df[r].marks[s].score = [isna |-> FALSE, val |-> 0]
                 /\ df[r].marks[s].absent = "N"
            /\ EligibleRows(s) = 1..Len(df)
            /\ Len(df) > 0 =>
                 /\ CountIn(statistics[s].data, QuanQu) = Len(df)
                 /\ FracEq(DistrictPassRate(s), FracInt(0))

C14_PlaceholderReached ==
    /\ pc = "calculated"
    /\ SubjectsWithoutColumn = {YuWen}
    /\ Len(df) = 2
    /\ CountIn(statistics[YuWen].data, QuanQu) = 2

(***************************************************************************)
(* Properties of the registry, checked under RegistrySpec.                 *)
(***************************************************************************)
UniqueNames(registry) ==
    \A i, j \in 1..Len(registry) : registry[i].name = registry[j].name => i = j

\* C15: after any sequence of add, update, remove and clear operations on the
\* subject registry, no two configurations held by the registry have the same
\* name.
C15_UniqueByName == UniqueNames(manager_subjects)

\* What does hold: names stay unique across every step except an update that
\* stores, under one name, a configuration carrying another name that is
\* already present.
C15_OnlyRenamingUpdateBreaks ==
    [][(UniqueNames(manager_subjects) /\ ~UniqueNames(manager_subjects')) =>
          /\ last_call'.op = "update_subject"
          /\ last_call'.args[2].name # last_call'.args[1]
          /\ HasName(manager_subjects, last_call'.args[2].name)]_vars

\* C16: add(config) returns false and leaves the registry's contents and
\* order unchanged when a configuration with the same name is already
\* present; otherwise it returns true and the registry is the previous
\* sequence with config appended at the end.
C16_Add ==
    [][last_call'.op = "add_subject" =>
          LET config == last_call'.args[1] IN
          IF \E i \in 1..Len(manager_subjects) : manager_subjects[i].name = config.name
          THEN last_call'.result = FALSE /\ manager_subjects' = manager_subjects
          ELSE last_call'.result = TRUE
               /\ manager_subjects' = manager_subjects \o <<config>>]_vars

\* add was refused for a configuration that differs from the one stored under
\* its name, which is still there, second of two.
C16_Witness ==
    /\ pc = "registry"
    /\ last_call = Call("add_subject", <<SubjectConfig(ShuXue, 1, 50, 100)>>, FALSE)
    /\ manager_subjects = <<SubjectConfig(YuWen, 1, 60, 80), SubjectConfig(ShuXue, 2, 50, 100)>>

\* add was accepted and its configuration is the last of the registry.
C16_AppendedReached ==
    /\ pc = "registry"
    /\ last_call = Call("add_subject", <<SubjectConfig(ShuXue, 1, 50, 100)>>, TRUE)
    /\ manager_subjects = <<SubjectConfig(YuWen, 1, 60, 80), SubjectConfig(ShuXue, 1, 50, 100)>>

RegistryOps == {"add_subject", "remove_subject", "update_subject", "clear"}
ReturnedListOps == {"returned.append", "returned.pop", "returned.reverse"}

\* C17: list() returns a snapshot: adding to, removing from or reordering the
\* returned collection does not change the registry, and later add, remove,
\* update and clear calls on the registry do not change the membership or
\* order of a collection returned earlier.
C17_Snapshot ==
    [][/\ last_call'.op = "get_subjects" =>
            /\ snapshot'.items = manager_subjects
            /\ manager_subjects' = manager_subjects
       /\ last_call'.op \in ReturnedListOps => manager_subjects' = manager_subjects
       /\ last_call'.op \in RegistryOps => snapshot'.items = snapshot.items]_vars

\* A list was returned when the registry held one configuration; the registry
\* has since taken a second one and the returned list still holds the one.
C17_Witness ==
    /\ pc = "registry"
    /\ last_call = Call("add_subject", <<SubjectConfig(YuWen, 1, 60, 80)>>, TRUE)
    /\ snapshot.items = <<SubjectConfig(ShuXue, 2, 50, 100)>>
    /\ manager_subjects = <<SubjectConfig(ShuXue, 2, 50, 100), SubjectConfig(YuWen, 1, 60, 80)>>

\* The caller reversed the list it was given; the registry keeps its order.
C17_CallerChangeReached ==
    /\ pc = "registry"
    /\ last_call.op = "returned.reverse"
    /\ snapshot.items = <<SubjectConfig(YuWen, 1, 60, 80), SubjectConfig(ShuXue, 2, 50, 100)>>
    /\ manager_subjects = <<SubjectConfig(ShuXue, 2, 50, 100), SubjectConfig(YuWen, 1, 60, 80)>>

\* The first position of the registry holding a configuration named name
FirstNamed(registry, name) ==
    CHOOSE i \in 1..Len(registry) :
        /\ registry[i].name = name
        /\ \A j \in 1..(i - 1) : registry[j].name # name

\* The value get(name) returns on a registry
Get(registry, name) ==
    IF \E i \in 1..Len(registry) : registry[i].name = name
    THEN registry[FirstNamed(registry, name)] ELSE None

\* C19: update(name, config) replaces the configuration stored under name
\* wholesale at the same position in the order and returns true, after which
\* get(config.name) returns config; when no configuration is stored under
\* name it returns false and the registry is unchanged; get(name) returns the
\* stored configuration or the absent value, and remove(name) of a name not
\* present leaves the registry unchanged.
C19_UpdateGetRemove ==
    [][/\ last_call'.op = "update_subject" =>
            LET name == last_call'.args[1]
                config == last_call'.args[2]
            IN  IF \E i \in 1..Len(manager_subjects) : manager_subjects[i].name = name
                THEN /\ last_call'.result = TRUE
                     /\ manager_subjects' =
                          [manager_subjects EXCEPT ![FirstNamed(manager_subjects, name)] = config]
                     /\ Get(manager_subjects', config.name) = config
                ELSE /\ last_call'.result = FALSE
                     /\ manager_subjects' = manager_subjects
       /\ last_call'.op = "get_subject" =>
            /\ last_call'.result = Get(manager_subjects, last_call'.args[1])
            /\ manager_subjects' = manager_subjects
       /\ last_call'.op = "remove_subject" =>
            (~(\E i \in 1..Len(manager_subjects) :
                    manager_subjects[i].name = last_call'.args[1])
                => manager_subjects' = manager_subjects)]_vars

\* The same statement without "after which get(config.name) returns config":
\* this much holds of every update, get and remove step.
C19_WithoutGetAfterUpdate ==
    [][/\ last_call'.op = "update_subject" =>
            LET name == last_call'.args[1]
                config == last_call'.args[2]
            IN  IF \E i \in 1..Len(manager_subjects) : manager_subjects[i].name = name
                THEN /\ last_call'.result = TRUE
                     /\ manager_subjects' =
                          [manager_subjects EXCEPT ![FirstNamed(manager_subjects, name)] = config]
                ELSE /\ last_call'.result = FALSE
                     /\ manager_subjects' = manager_subjects
       /\ last_call'.op = "get_subject" =>
            /\ last_call'.result = Get(manager_subjects, last_call'.args[1])
            /\ manager_subjects' = manager_subjects
       /\ last_call'.op = "remove_subject" =>
            (~(\E i \in 1..Len(manager_subjects) :
                    manager_subjects[i].name = last_call'.args[1])
                => manager_subjects' = manager_subjects)]_vars

\* An update stored a configuration under another name that an earlier entry
\* carries: get of that name returns the earlier entry, not the one stored.
C19_GetAfterUpdateDiffers ==
    /\ pc = "registry"
    /\ last_call.op = "update_subject" /\ last_call.result = TRUE
    /\ Get(manager_subjects, last_call.args[2].name) # last_call.args[2]

(***************************************************************************)
(* Properties of the analysis, continued (checked under Spec).             *)
(***************************************************************************)
\* The first per-school row, in aggregate-list order, whose average no other
\* per-school row beats (highest when best, lowest otherwise)
FirstExtreme(data, best) ==
    CHOOSE i \in SchoolRowIdx(data) :
        /\ \A j \in SchoolRowIdx(data) :
             IF best THEN FracLe(data[j].avg_score, data[i].avg_score)
             ELSE FracLe(data[i].avg_score, data[j].avg_score)
        /\ \A j \in SchoolRowIdx(data) :
             j < i => ~FracEq(data[j].avg_score, data[i].avg_score)

\* C20: for each subject with a non-empty aggregate list, the per-subject
\* analysis names as best school the first per-school row (in aggregate-list
\* order) having the maximum avg_score and as worst school the first
\* per-school row having the minimum avg_score, never the district-wide row,
\* and reports gap = best avg - worst avg, which is >= 0.
C20_BestWorstSchool ==
    Reported =>
        /\ Len(analysis.subjects) = Len(subjects)
        /\ \A k \in 1..Len(subjects) :
            LET data == statistics[subjects[k]].data
                entry == analysis.subjects[k]
                hi == data[FirstExtreme(data, TRUE)]
                lo == data[FirstExtreme(data, FALSE)]
            IN  /\ entry.subject = subjects[k]
                /\ entry.best_school = hi.school /\ FracEq(entry.best_avg, hi.avg_score)
                /\ entry.worst_school = lo.school /\ FracEq(entry.worst_avg, lo.avg_score)
                /\ entry.best_school # QuanQu /\ entry.worst_school # QuanQu
                /\ FracEq(entry.gap, FracSub(hi.avg_score, lo.avg_score))
                /\ FracLe(FracInt(0), entry.gap)

\* Three schools, the last two level at the top: the second is named best,
\* the first worst, with a positive gap.
C20_Witness ==
    /\ Reported
    /\ \E k \in 1..Len(subjects) :
        LET data == statistics[subjects[k]].data
            entry == analysis.subjects[k]
        IN  /\ Cardinality(SchoolRowIdx(data)) = 3
            /\ FracEq(data[2].avg_score, data[3].avg_score)
            /\ FracLt(data[1].avg_score, data[2].avg_score)
            /\ entry.best_school = data[2].school
            /\ entry.worst_school = data[1].school
            /\ FracLt(FracInt(0), entry.gap)

\* The statistics a new engine computes from the sheet and the registry
FreshStatistics ==
    LET table == _clean_data(excel_file, subjects)
        school_list == SortedSchools(table)
    IN  [key \in SubjectSet(subjects) \cup {ZongFen} |->
            IF key = ZongFen
            THEN _calculate_total_stats(manager_subjects, WithTotals(table, subjects), school_list)
            ELSE _calculate_subject_stats(manager_subjects, table, school_list, key)]

\* C18: the pipeline is deterministic and recomputes from scratch: running
\* calculate_statistics followed by generate_analysis_report twice on the same
\* dataset and the same registry configuration, the second time on the same
\* engine instance included, yields identical statistics and an identical
\* analysis result, with nothing carried over from the first pass.
C18_SecondPassIdentical ==
    /\ pc \in {"calculated_again", "reported_again", "raised_again"} =>
         /\ statistics = first_pass.statistics
         /\ statistics = FreshStatistics
         /\ df = first_pass.df
    /\ pc \in {"reported_again", "raised_again"} => analysis = first_pass.analysis

\* A second report on the same engine, with students valid for the total,
\* totals above 0 and recommendations in the report.
C18_Witness ==
    /\ pc = "reported_again"
    /\ Len(subjects) = 2
    /\ \E r \in 1..Len(df) : df[r].youxiao /\ df[r].zongfen > 0
    /\ Len(analysis.recommendations) >= 2
    /\ analysis = first_pass.analysis

\* The positions, in the subject iteration order, of the subjects in whose
\* aggregate list the school has a row, and the school's rank by average there
SubjectsWithRow(school) ==
    {k \in 1..Len(subjects) :
        \E i \in SchoolRowIdx(statistics[subjects[k]].data) :
            statistics[subjects[k]].data[i].school = school}

RowOfSchool(key, school) ==
    statistics[key].data[CHOOSE i \in SchoolRowIdx(statistics[key].data) :
                            statistics[key].data[i].school = school]

AvgRankIn(k, school) == RowOfSchool(subjects[k], school).avg_rank

\* C21: for each school in the per-school analysis, the strongest subject is a
\* subject in which the school's average-score rank is lowest among the
\* subjects where the school has a row, and when several subjects share that
\* lowest rank the one earliest in the subject iteration order is chosen.
C21_StrongestSubject ==
    Reported =>
        \A e \in 1..Len(analysis.schools) :
            LET entry == analysis.schools[e]
                with_row == SubjectsWithRow(entry.school)
            IN  with_row # {} =>
                  \E k \in with_row :
                    /\ entry.strength_subject = subjects[k]
                    /\ FracEq(entry.strength_avg, RowOfSchool(subjects[k], entry.school).avg_score)
                    /\ \A j \in with_row :
                         /\ AvgRankIn(k, entry.school) <= AvgRankIn(j, entry.school)
                         /\ AvgRankIn(j, entry.school) = AvgRankIn(k, entry.school) => k <= j

\* One school ranks the same in both subjects and the first subject is named;
\* another ranks better in the second subject and the second is named.
C21_Witness ==
    /\ Reported
    /\ Len(subjects) = 2
    /\ \E a, b \in 1..Len(analysis.schools) :
        LET ea == analysis.schools[a]
            eb == analysis.schools[b]
        IN  /\ SubjectsWithRow(ea.school) = {1, 2} /\ SubjectsWithRow(eb.school) = {1, 2}
            /\ AvgRankIn(1, ea.school) = AvgRankIn(2, ea.school)
            /\ ea.strength_subject = subjects[1]
            /\ AvgRankIn(2, eb.school) < AvgRankIn(1, eb.school)
            /\ eb.strength_subject = subjects[2]

\* C22: for each school in the per-school analysis, the weakest subject is a
\* subject in which the school's average-score rank is highest among the
\* subjects where the school has a row, and when several subjects share that
\* highest rank the one earliest in the subject iteration order is chosen.
C22_WeakestSubjectEarliest ==
    Reported =>
        \A e \in 1..Len(analysis.schools) :
            LET entry == analysis.schools[e]
                with_row == SubjectsWithRow(entry.school)
            IN  with_row # {} =>
                  \E k \in with_row :
                    /\ entry.weakness_subject = subjects[k]
                    /\ \A j \in with_row :
                         /\ AvgRankIn(j, entry.school) <= AvgRankIn(k, entry.school)
                         /\ AvgRankIn(j, entry.school) = AvgRankIn(k, entry.school) => k <= j

\* C22 as the code has it: the weakest subject is a subject of highest rank
\* among the subjects where the school has a row, and when several subjects
\* share that highest rank the one latest in the subject iteration order is
\* chosen (the last element of the stable ascending sort).
C22_WeakestSubjectLatest ==
    Reported =>
        \A e \in 1..Len(analysis.schools) :
            LET entry == analysis.schools[e]
                with_row == SubjectsWithRow(entry.school)
            IN  with_row # {} =>
                  \E k \in with_row :
                    /\ entry.weakness_subject = subjects[k]
                    /\ FracEq(entry.weakness_avg, RowOfSchool(subjects[k], entry.school).avg_score)
                    /\ \A j \in with_row :
                         /\ AvgRankIn(j, entry.school) <= AvgRankIn(k, entry.school)
                         /\ AvgRankIn(j, entry.school) = AvgRankIn(k, entry.school) => j <= k

\* One school ranks the same in both subjects and the second subject is named
\* weakest (the first is named strongest); another ranks worse in the first
\* subject and the first is named.
C22_Witness ==
    /\ Reported
    /\ Len(subjects) = 2
    /\ \E a, b \in 1..Len(analysis.schools) :
        LET ea == analysis.schools[a]
            eb == analysis.schools[b]
        IN  /\ SubjectsWithRow(ea.school) = {1, 2} /\ SubjectsWithRow(eb.school) = {1, 2}
            /\ AvgRankIn(1, ea.school) = AvgRankIn(2, ea.school)
            /\ ea.weakness_subject = subjects[2]
            /\ ea.strength_subject = subjects[1]
            /\ AvgRankIn(2, eb.school) < AvgRankIn(1, eb.school)
            /\ eb.weakness_subject = subjects[1]

\* C23: for every subject and for the total, with n >= 1 eligible scores: when
\* floor(n*0.3) >= 1, at least floor(n*0.3) eligible scores are at or above
\* top30_line and fewer than floor(n*0.3) are strictly above it; at least
\* n - floor(n*0.8) eligible scores are at or below bottom20_line and fewer
\* than n - floor(n*0.8) are strictly below it.
C23_PercentileLinesByCount ==
    Computed =>
        \A key \in DOMAIN statistics :
            LET n == Cardinality(EligibleRows(key))
                top == (3 * n) \div 10
                bottom == n - ((8 * n) \div 10)
            IN  n >= 1 =>
                  /\ top >= 1 =>
                        /\ NumAtLeast(key, statistics[key].top30_line) >= top
                        /\ NumAbove(key, statistics[key].top30_line) < top
                  /\ NumAtMost(key, statistics[key].bottom20_line) >= bottom
                  /\ NumBelow(key, statistics[key].bottom20_line) < bottom

\* Seven eligible scores in a subject and in the total, floor(7*0.3) = 2 and
\* 7 - floor(7*0.8) = 2: one score lies strictly above top30_line and one
\* strictly below bottom20_line, and in the total the two lines differ.
C23_Witness ==
    /\ pc = "calculated"
    /\ \A key \in {ShuXue, ZongFen} :
        /\ key \in DOMAIN statistics
        /\ Cardinality(EligibleRows(key)) = 7
        /\ NumAbove(key, statistics[key].top30_line) = 1
        /\ NumBelow(key, statistics[key].bottom20_line) = 1
    /\ statistics[ZongFen].bottom20_line < statistics[ZongFen].top30_line

\* The rows of self.df as cleaning made them: the same students, each with the
\* same identity fields, school and per-subject (score, absence flag) pairs.
SameRecords(table, cleaned) ==
    /\ Len(table) = Len(cleaned)
    /\ \A r \in 1..Len(cleaned) :
        /\ table[r].kaohao = cleaned[r].kaohao
        /\ table[r].xingming = cleaned[r].xingming
        /\ table[r].school = cleaned[r].school
        /\ table[r].banji = cleaned[r].banji
        /\ table[r].marks = cleaned[r].marks

\* C24: computing per-subject statistics, total statistics and the analysis
\* never changes the ingested records: after any sequence of these operations
\* the student rows, their identity fields, school and per-subject (score,
\* absence flag) pairs are the same as right after cleaning.
C24_RecordsUnchanged ==
    pc # "constructed" => SameRecords(df, _clean_data(excel_file, subjects))

\* What the code keeps when a subject carries the name of the total column:
\* every field but that subject's score, which holds the row's total.
C24_OnlyNamedTotalScoreChanges ==
    Computed =>
        \A r \in 1..Len(df) :
            LET cleaned == _clean_data(excel_file, subjects)[r] IN
            /\ \A s \in SubjectSet(subjects) \ {ZongFen} : df[r].marks[s] = cleaned.marks[s]
            /\ \A s \in SubjectSet(subjects) : df[r].marks[s].absent = cleaned.marks[s].absent
            /\ ZongFen \in SubjectSet(subjects) =>
                    df[r].marks[ZongFen].score = [isna |-> FALSE, val |-> df[r].zongfen]

\* A student scored 2 and 1 in the two subjects; after the statistics the
\* second subject's score reads 2.
C24_OverwriteReached ==
    /\ pc = "calculated"
    /\ \E r \in 1..Len(df) :
        /\ _clean_data(excel_file, subjects)[r].marks[ZongFen].score = [isna |-> FALSE, val |-> 1]
        /\ df[r].marks[ZongFen].score = [isna |-> FALSE, val |-> 2]

\* The pair of columns (absence, score) detection named the k-th subject from,
\* and the pair cleaning reads that subject from.
DetectedFrom(k) == <<3 + 2 * k, 4 + 2 * k>>
BoundTo(subject) ==
    <<ScoreColumn(excel_file.cols, subject) - 1, ScoreColumn(excel_file.cols, subject)>>

\* C25: for every subject that auto-detection derives from a file (named
\* after the score column at positions 5, 7, 9, ... with the absence column
\* immediately before it), cleaning the same file binds that subject to that
\* same score column and that same absence column, whatever the column names
\* are.
C25_CleaningBindsDetectedColumns ==
    (pc = "loaded" /\ last_call.op = "auto_detect_from_excel") =>
        \A k \in 1..Len(subjects) :
            /\ BoundTo(subjects[k]) = DetectedFrom(k)
            /\ \A r \in 1..Len(df) :
                df[r].marks[subjects[k]] =
                    [absent |-> excel_file.rows[r][DetectedFrom(k)[1]],
                     score |-> ToNumeric(excel_file.rows[r][DetectedFrom(k)[2]])]

\* What the code does: a detected subject is read from the first column after
\* the fifth whose header contains its name, which is its own column or an
\* earlier one.
C25_BindsFirstContaining ==
    (pc = "loaded" /\ last_call.op = "auto_detect_from_excel") =>
        \A k \in 1..Len(subjects) :
            /\ BoundTo(subjects[k])[2] \in 6..DetectedFrom(k)[2]
            /\ Contains(subjects[k], excel_file.cols[BoundTo(subjects[k])[2]])
            /\ \A i \in 6..(BoundTo(subjects[k])[2] - 1) :
                    ~Contains(subjects[k], excel_file.cols[i])

\* The second detected subject's name occurs in the first score header, and
\* the student's score in it reads 1, the first column's, for 2.
C25_WrongColumnReached ==
    /\ pc = "loaded" /\ last_call.op = "auto_detect_from_excel"
    /\ Len(subjects) >= 2 /\ Len(df) = 1
    /\ subjects[2] = ShuXue
    /\ BoundTo(ShuXue) = DetectedFrom(1)
    /\ excel_file.rows[1][DetectedFrom(2)[2]] = NumCell(2)
    /\ df[1].marks[ShuXue].score = [isna |-> FALSE, val |-> 1]

\* C26: generate_analysis_report returns an analysis without raising for
\* every statistics set that calculate_statistics can produce, including when
\* some subject's statistics or the total's statistics are the empty-data
\* sentinel.
C26_ReportNeverRaises ==
    (pc \notin {"constructed", "loaded", "calculated"}) =>
        /\ pc = "reported"
        /\ DOMAIN analysis = {"overall", "subjects", "schools", "recommendations"}

\* What the code does: the report raises exactly when the total's data or a
\* subject's data is the empty sentinel.
C26_RaisesOnSentinel ==
    (pc \in {"reported", "raised"}) =>
        (pc = "raised") =
            (\E key \in SubjectSet(subjects) \cup {ZongFen} : statistics[key].data = <<>>)

\* Two students, each absent in a different subject: every subject has an
\* eligible student, the total has none, and the report raised.
C26_RaisedReached ==
    /\ pc = "raised"
    /\ analysis = [raised |-> "KeyError"]
    /\ statistics[ZongFen].data = <<>>
    /\ \A k \in 1..Len(subjects) : statistics[subjects[k]].data # <<>>
    /\ Len(df) = 2

\* C27: a pipeline run on the GUI's background worker computes from one
\* consistent configuration: every subject name captured when the engine was
\* constructed still resolves to a configuration throughout the run, and the
\* total thresholds are derived from the same subject configurations that the
\* per-subject statistics of that run used, under every interleaving of the
\* worker with the GUI handlers that delete a subject or save a subject's
\* configuration.
C27_OneConsistentConfiguration ==
    /\ RunInProgress =>
            \A k \in 1..Len(subjects) : get_subject(manager_subjects, subjects[k]) # None
    /\ pc = "calculated" =>
            /\ FracEq(statistics[ZongFen].pass_line, TotalPassLine(run.config_used))
            /\ FracEq(statistics[ZongFen].excellence_line, TotalExcellenceLine(run.config_used))

\* What holds: a run during which no handler was called on the registry ends
\* calculated, with the total thresholds of the configurations its subjects
\* used.
C27_ConsistentWithoutHandlers ==
    last_call.op = "__init__" =>
        /\ pc # "raised"
        /\ \A k \in 1..Len(subjects) : get_subject(manager_subjects, subjects[k]) # None
        /\ pc = "calculated" =>
            /\ FracEq(statistics[ZongFen].pass_line, TotalPassLine(run.config_used))
            /\ FracEq(statistics[ZongFen].excellence_line, TotalExcellenceLine(run.config_used))

\* A subject was deleted after the engine captured its name, and its
\* statistics raised.
C27_UnresolvedNameReached ==
    /\ pc = "raised"
    /\ analysis = [raised |-> "AttributeError"]
    /\ last_call.op = "remove_subject"
    /\ \E k \in 1..Len(subjects) : get_subject(manager_subjects, subjects[k]) = None

\* A subject's configuration was saved between its statistics and the total:
\* the run ended with a total pass line that is not the one of the
\* configurations its subjects used.
C27_MixedThresholdsReached ==
    /\ pc = "calculated"
    /\ Len(run.config_used) = 2
    /\ ~FracEq(statistics[ZongFen].pass_line, TotalPassLine(run.config_used))
    /\ \A k \in 1..Len(subjects) : get_subject(manager_subjects, subjects[k]) # None

\* C28: every student counted in the total aggregates is also counted in the
\* aggregates of every configured subject, for every dataset the cleaning
\* step can produce (whatever values the absence-marker column holds); hence
\* the total's district-wide count never exceeds any subject's district-wide
\* count.
C28_TotalCountedInEverySubject ==
    Computed =>
        \A k \in 1..Len(subjects) :
            /\ EligibleRows(ZongFen) \subseteq EligibleRows(subjects[k])
            /\ statistics[ZongFen].data # <<>> =>
                    /\ statistics[subjects[k]].data # <<>>
                    /\ DistrictOf(statistics[ZongFen].data).count
                            <= DistrictOf(statistics[subjects[k]].data).count

\* What the code does with a marker that is neither 'Y' nor 'N': the student
\* is left out of the subject and, given scores in every subject and no 'Y',
\* kept in the total.
C28_OtherMarkerCountsInTotalOnly ==
    Computed =>
        \A r \in 1..Len(df) :
            /\ \A k \in 1..Len(subjects) :
                    (r \in EligibleRows(subjects[k])) =
                        (df[r].marks[subjects[k]].absent = "N"
                            /\ ~df[r].marks[subjects[k]].score.isna)
            /\ (r \in EligibleRows(ZongFen)) =
                    (\A k \in 1..Len(subjects) :
                        /\ df[r].marks[subjects[k]].absent # "Y"
                        /\ ~df[r].marks[subjects[k]].score.isna)
            /\ statistics[ZongFen].data # <<>> =>
                    DistrictOf(statistics[ZongFen].data).count
                        = Cardinality(EligibleRows(ZongFen))

\* Two students with scores in both subjects, one of them with a blank
\* absence cell in the first subject: the total counts two, the subject one.
C28_TotalCountsMoreReached ==
    /\ pc = "calculated"
    /\ Len(df) = 2
    /\ \E r \in 1..2 : df[r].marks[ShuXue].absent = BlankMarker
    /\ DistrictOf(statistics[ZongFen].data).count = 2
    /\ DistrictOf(statistics[ShuXue].data).count = 1

\* A worker that has statements left, and one that has also written to the
\* status label or the progress bar (until then a started worker has yet to
\* replace the 'ready' and the 0 the GUI was created with).
Running(w) == threads[w].at \in {"try", "finally"}
Announced(w) == Running(w) /\ ~(threads[w].at = "try" /\ threads[w].i <= 2)

\* C29, first part: whenever a background worker of the GUI (Word report or
\* Excel export) ends, by success, by load failure or by an exception, its
\* button is re-enabled.
C29_ButtonReenabled ==
    \A w \in Workers : threads[w].at = "ended" => widgets[ButtonOf(w)] = "normal"

\* C29: whenever a background worker ends its button is re-enabled; and at
\* every moment the status label shows 'ready' and the progress bar shows 0
\* only if no background worker is still running, under every interleaving of
\* a Word-report worker and an Excel-export worker. A worker is taken as
\* running from its first write to the status label or the progress bar.
C29_ReadyOnlyWhenIdle ==
    /\ \A w \in Workers : threads[w].at = "ended" => widgets[ButtonOf(w)] = "normal"
    /\ (widgets.status_label = JiuXu /\ widgets.progress = 0) =>
            \A w \in Workers : ~Announced(w)

\* The report worker has ended and left 'ready' and 0 on the widgets while
\* the export worker, past its load, is still in its try block with its
\* button disabled.
C29_ReadyWhileRunningReached ==
    /\ threads["report"].at = "ended"
    /\ threads["excel"].at = "try" /\ threads["excel"].i > 4
    /\ widgets.excel_btn = "disabled"
    /\ widgets.export_btn = "normal"
    /\ widgets.status_label = JiuXu /\ widgets.progress = 0

\* Both workers have ended, one by a load failure or an exception before its
\* last statement was reached.
C29_BothEndedReached ==
    /\ \A w \in Workers : threads[w].at = "ended"
    /\ widgets = InitialWidgets

\* What holds: while only one of the two workers has been started, 'ready'
\* and 0 are shown only before its first status or progress write and after
\* its end.
C29_ReadyOnlyWhenIdleAlone ==
    (\E w \in Workers : threads[w].at = "none") =>
        ((widgets.status_label = JiuXu /\ widgets.progress = 0) =>
            \A w \in Workers : ~Announced(w))

\* A rate between 0 and 100
IsPercent(rate) == FracLe(FracInt(0), rate) /\ FracLe(rate, FracInt(100))

\* C30: for a subject configured with pass_percent <= excellence_percent and
\* max_score >= 0, every row of that subject's aggregate list (each school
\* and the district-wide row) has excellence_rate <= pass_rate, and every
\* rate of every row lies between 0 and 100 with count >= 1.
C30_RatesOrderedAndBounded ==
    Computed =>
        \A k \in 1..Len(subjects) :
            LET config == get_subject(manager_subjects, subjects[k])
                data == statistics[subjects[k]].data
            IN  (config.pass_percent <= config.excellence_percent /\ config.max_score >= 0) =>
                    \A i \in 1..Len(data) :
                        /\ FracLe(data[i].excellence_rate, data[i].pass_rate)
                        /\ IsPercent(data[i].pass_rate)
                        /\ IsPercent(data[i].excellence_rate)
                        /\ IsPercent(data[i].bottom20_rate)
                        /\ IsPercent(data[i].top30_rate)
                        /\ data[i].count >= 1

\* A subject in which a school's excellence rate lies strictly between 0 and
\* its pass rate, and its pass rate below 100; the district-wide row likewise.
C30_Witness ==
    /\ pc = "calculated"
    /\ ShuXue \in DOMAIN statistics
    /\ get_subject(manager_subjects, ShuXue).pass_percent
            < get_subject(manager_subjects, ShuXue).excellence_percent
    /\ \E i, j \in 1..Len(statistics[ShuXue].data) :
        LET row == statistics[ShuXue].data[i]
            all == statistics[ShuXue].data[j]
        IN  /\ row.school # QuanQu /\ all.school = QuanQu
            /\ \A r \in {row, all} :
                /\ FracLt(FracInt(0), r.excellence_rate)
                /\ FracLt(r.excellence_rate, r.pass_rate)
                /\ FracLt(r.pass_rate, FracInt(100))

====
